---------------------------- MODULE Spec2Model ----------------------------
(***************************************************************************)
(* State-machine model of the synth controller: the matrix scanner         *)
(* (matrix.py), the configuration store (config_store.py), the audio       *)
(* engine NoteSynth (audio.py) and the SynthController (controller.py).    *)
(*                                                                         *)
(* Representation choices                                                  *)
(*  - a note is a sequence of one-character strings, <<"D","b","4">>;      *)
(*  - a volume or an encoder step is an integer count of 1e-9, so that     *)
(*    1.0 is VolOne and math.isclose (rel_tol 1e-9) is not plain equality; *)
(*  - a frequency 440 * 2^((n - 69) / 12) is represented by its semitone   *)
(*    index n (the map n |-> frequency is strictly increasing);            *)
(*  - time is counted in whole ticks (milliseconds for the scanner,        *)
(*    seconds for the audio device).                                       *)
(***************************************************************************)
EXTENDS Integers, Sequences, FiniteSets, TLC

\* Optional values: Python's None is the empty tuple, a present value x is <<x>>
NoneVal == <<>>
Some(x) == <<x>>
\* A note that could not be normalised (ValueError)
BadNote == <<>>

Max2(a, b) == IF a >= b THEN a ELSE b
Min2(a, b) == IF a <= b THEN a ELSE b
Abs(a) == IF a >= 0 THEN a ELSE 0 - a

(***************************************************************************)
(* Notes: config_store._normalise_note and audio.note_to_frequency         *)
(***************************************************************************)
NOTE_NAMES ==
  << <<"C">>, <<"C","#">>, <<"D">>, <<"D","#">>, <<"E">>, <<"F">>,
     <<"F","#">>, <<"G">>, <<"G","#">>, <<"A">>, <<"A","#">>, <<"B">> >>

DigitChars == <<"0", "1", "2", "3", "4", "5", "6", "7", "8", "9">>

IsDigit(c) == \E i \in 1..10 : DigitChars[i] = c

DigitVal(c) == (CHOOSE i \in 1..10 : DigitChars[i] = c) - 1

\* str.upper() on one character, for the letters a note can start with
Upper(c) ==
  CASE c = "a" -> "A" [] c = "b" -> "B" [] c = "c" -> "C" [] c = "d" -> "D"
    [] c = "e" -> "E" [] c = "f" -> "F" [] c = "g" -> "G" [] c = "h" -> "H"
    [] OTHER -> c

UpperSeq(s) == [i \in 1..Len(s) |-> Upper(s[i])]

RECURSIVE StripLeft(_)
StripLeft(s) == IF s # <<>> /\ Head(s) = " " THEN StripLeft(Tail(s)) ELSE s

RECURSIVE StripRight(_)
StripRight(s) ==
  IF s # <<>> /\ s[Len(s)] = " " THEN StripRight(SubSeq(s, 1, Len(s) - 1)) ELSE s

Strip(s) == StripRight(StripLeft(s))

\* str.lstrip("-+")
RECURSIVE LStripSigns(_)
LStripSigns(s) ==
  IF s # <<>> /\ Head(s) \in {"-", "+"} THEN LStripSigns(Tail(s)) ELSE s

AllDigits(s) == s # <<>> /\ \A i \in 1..Len(s) : IsDigit(s[i])

RECURSIVE DigitsValue(_)
DigitsValue(s) ==
  IF s = <<>> THEN 0
  ELSE 10 * DigitsValue(SubSeq(s, 1, Len(s) - 1)) + DigitVal(s[Len(s)])

\* int(text) for a text of sign characters and digits: NoneVal where int() raises
ParseInt(s) ==
  IF s = <<>> THEN NoneVal
  ELSE IF Head(s) \in {"-", "+"}
       THEN IF AllDigits(Tail(s))
            THEN (IF Head(s) = "-" THEN Some(0 - DigitsValue(Tail(s)))
                  ELSE Some(DigitsValue(Tail(s))))
            ELSE NoneVal
       ELSE IF AllDigits(s) THEN Some(DigitsValue(s)) ELSE NoneVal

RECURSIVE NatStr(_)
NatStr(n) ==
  IF n < 10 THEN <<DigitChars[n + 1]>>
  ELSE NatStr(n \div 10) \o <<DigitChars[(n % 10) + 1]>>

\* str(int)
IntStr(n) == IF n < 0 THEN <<"-">> \o NatStr(0 - n) ELSE NatStr(n)

NoteIndex(pitch) == CHOOSE i \in 1..12 : NOTE_NAMES[i] = pitch

IsNoteName(pitch) == \E i \in 1..12 : NOTE_NAMES[i] = pitch

FLAT_TO_SHARP(p) ==
  CASE p = <<"D","b">> -> <<"C","#">>
    [] p = <<"E","b">> -> <<"D","#">>
    [] p = <<"G","b">> -> <<"F","#">>
    [] p = <<"A","b">> -> <<"G","#">>
    [] p = <<"B","b">> -> <<"A","#">>
    [] OTHER -> <<>>

\* _normalise_note: the canonical note, or BadNote where it raises ValueError
NormaliseNote(value) ==
  LET raw == Strip(value)
      head == IF raw = <<>> THEN "" ELSE Upper(raw[1])
      rem0 == IF raw = <<>> THEN <<>> ELSE Tail(raw)
      acc  == IF rem0 # <<>> /\ rem0[1] = "#" THEN <<"#">>
              ELSE IF rem0 # <<>> /\ rem0[1] = "b" THEN <<"b">>
              ELSE <<>>
      remainder == IF acc # <<>> THEN Tail(rem0) ELSE rem0
      pitch0 == <<(IF head = "H" THEN "B" ELSE head)>> \o acc
      pitchKey == IF acc # <<>> THEN pitch0 ELSE UpperSeq(pitch0)
      pitch == IF FLAT_TO_SHARP(pitchKey) # <<>> THEN FLAT_TO_SHARP(pitchKey)
               ELSE UpperSeq(pitch0)
      octave == ParseInt(remainder)
  IN IF raw = <<>> THEN BadNote
       ELSE IF ~IsNoteName(pitch) THEN BadNote
       ELSE IF remainder = <<>> \/ ~AllDigits(LStripSigns(remainder)) THEN BadNote
       ELSE IF octave = NoneVal THEN BadNote
       ELSE IF ~(-1 <= octave[1] /\ octave[1] <= 8) THEN BadNote
       ELSE pitch \o IntStr(octave[1])

\* length of the trailing run of digits and sign characters (the while loop)
RECURSIVE TrailLen(_)
TrailLen(s) ==
  IF s # <<>> /\ (IsDigit(s[Len(s)]) \/ s[Len(s)] \in {"-", "+"})
  THEN 1 + TrailLen(SubSeq(s, 1, Len(s) - 1))
  ELSE 0

\* the outcome of note_to_frequency where 2 ** ((index - 69) / 12) raises
\* OverflowError: the exponent is 1024.0 or more
Overflowed == <<"OverflowError", 0>>

PowOverflows(index) == index - 69 >= 1024 * 12

\* note_to_frequency: Some(midi_index + transpose), the semitone index that the
\* returned frequency 440 * 2^((index - 69) / 12) stands for, NoneVal where
\* it raises ValueError, Overflowed where it raises OverflowError
NoteToFrequency(note, transp) ==
  LET raw == Strip(note)
      n == TrailLen(raw)
      digits == SubSeq(raw, Len(raw) - n + 1, Len(raw))
      pitch == SubSeq(raw, 1, Len(raw) - n)
      octave == ParseInt(digits)
  IN IF Len(raw) < 2 THEN NoneVal
     ELSE IF n = 0 THEN NoneVal
     ELSE IF octave = NoneVal THEN NoneVal
     ELSE IF ~IsNoteName(pitch) THEN NoneVal
     ELSE IF PowOverflows((NoteIndex(pitch) - 1) + (octave[1] + 1) * 12 + transp)
     THEN Overflowed
     ELSE Some((NoteIndex(pitch) - 1) + (octave[1] + 1) * 12 + transp)

(***************************************************************************)
(* Configuration documents (config_store.py)                               *)
(*                                                                         *)
(* A document is a record                                                  *)
(*   [keys, encoders, synth, app, raw]                                     *)
(* keys: sequence of [id, note]; encoders: sequence of [name, action,      *)
(* step]; synth: [waveform, volume, transpose, attack_ms, release_ms];     *)
(* app: [debounce_ms].  raw is the set of sections that are plain dicts    *)
(* and not model objects (possible only in memory, after model_copy).      *)
(* The fields no operation of the controller reads (row, col, label, A, B, *)
(* minimum, maximum, rows, cols, web_host, web_port) are left out.         *)
(***************************************************************************)
SUPPORTED_WAVEFORMS == <<"sine", "square", "saw", "triangle">>

EncoderActions == {"none", "transpose", "volume", "waveform"}

\* 1.0 as a count of 1e-9: the upper limit of SynthSettings.volume
VolOne == 1000000000
\* 1 / rel_tol of math.isclose (rel_tol = 1e-09, abs_tol = 0)
RelTolInv == 1000000000

TransposeMin == -24
TransposeMax == 24
AttackMax == 500
ReleaseMin == 10
ReleaseMax == 5000
DebounceMin == 1
DebounceMax == 100

IsSupportedWaveform(w) == \E i \in 1..Len(SUPPORTED_WAVEFORMS) : SUPPORTED_WAVEFORMS[i] = w

\* KeyConfig: the note validator
ValidKey(k) == NormaliseNote(k.note) # BadNote

\* EncoderConfig: the action literal and the step validator
ValidEncoder(e) ==
  /\ e.action \in EncoderActions
  /\ (IF e.step = NoneVal THEN TRUE ELSE e.step[1] > 0)

\* SynthSettings: the field ranges and the waveform validator
ValidSynth(y) ==
  /\ IsSupportedWaveform(y.waveform)
  /\ 0 <= y.volume /\ y.volume <= VolOne
  /\ TransposeMin <= y.transpose /\ y.transpose <= TransposeMax
  /\ 0 <= y.attack_ms /\ y.attack_ms <= AttackMax
  /\ ReleaseMin <= y.release_ms /\ y.release_ms <= ReleaseMax

\* AppSettings
ValidApp(a) == DebounceMin <= a.debounce_ms /\ a.debounce_ms <= DebounceMax

\* whether ControllerConfig.model_validate accepts the document
ValidDoc(d) ==
  /\ \A i \in 1..Len(d.keys) : ValidKey(d.keys[i])
  /\ \A i \in 1..Len(d.encoders) : ValidEncoder(d.encoders[i])
  /\ ValidSynth(d.synth)
  /\ ValidApp(d.app)

\* the model ControllerConfig.model_validate builds from an accepted document:
\* notes normalised, every section a model object
ModelValidate(d) ==
  [d EXCEPT !.keys = [i \in 1..Len(d.keys) |->
                        [d.keys[i] EXCEPT !.note = NormaliseNote(d.keys[i].note)]],
            !.raw = {}]

\* model.model_dump(mode="python") written as YAML: the plain data of the
\* model, whatever the sections are
ModelDump(c) == [c EXCEPT !.raw = {}]

(***************************************************************************)
(* NoteSynth (audio.py)                                                    *)
(*                                                                         *)
(* The engine is a record [waveform, volume, transpose, attack_ms,         *)
(* release_ms, cache, playing, key_notes, warned].  A key id is a tuple of *)
(* text pieces, <<"MX1">> or <<"preview-", "C", "4">>.  cache is the set   *)
(* of entries [key, buf]: buf records the parameters the buffer was        *)
(* synthesised with.  playing maps a key id to the id of its PlayObject.   *)
(* The audio device is the set of sounding voices [id, key, age, buf]: a   *)
(* voice leaves it when it is stopped or when its buffer has played out.   *)
(***************************************************************************)
\* voice_duration, in seconds
VoiceDuration == 3
\* at most MaxVoices voices sound at once in this model
MaxVoices == 3

\* math.isclose(a, b): abs(a - b) <= rel_tol * max(abs(a), abs(b))
IsClose(a, b) == Abs(a - b) <= Max2(Abs(a), Abs(b)) \div RelTolInv

\* max(lo, min(hi, x))
Clamp(x, lo, hi) == Max2(lo, Min2(hi, x))

\* the state NoteSynth.__init__ leaves
SynthInit ==
  [waveform |-> "sine", volume |-> 700000000, transpose |-> 0,
   attack_ms |-> 5, release_ms |-> 160,
   cache |-> {}, playing |-> <<>>, key_notes |-> <<>>, warned |-> FALSE, logged |-> 0]

\* NoteSynth.__init__ where simpleaudio was imported (sa_ok) or not: without it
\* the constructor logs its warning; logged counts the log records that report
\* the missing backend
NewSynth(sa_ok) == [SynthInit EXCEPT !.logged = IF sa_ok THEN 0 ELSE 1]

\* mutant: the note_on message logged on every call
LogOnce_Always(e) == [e EXCEPT !.warned = TRUE, !.logged = @ + 1]

\* note_on, lines 103-105: the message logged unless _warned is set
LogOnce(e) ==
  IF e.warned THEN e ELSE [e EXCEPT !.warned = TRUE, !.logged = @ + 1]

SetKeyNotes(e, mapping) == [e EXCEPT !.key_notes = mapping]

\* mutant: a waveform change that keeps the cache
SetWaveform_KeepCache(e, waveform) == [e EXCEPT !.waveform = waveform]

SetWaveform(e, waveform) ==
  IF waveform # e.waveform
  THEN [e EXCEPT !.waveform = waveform, !.cache = {}]
  ELSE e

SetVolume(e, volume) ==
  LET v == Clamp(volume, 0, VolOne)
  IN IF ~IsClose(v, e.volume)
     THEN [e EXCEPT !.volume = v, !.cache = {}]
     ELSE e

\* mutant: a transposition that empties the cache
SetTranspose_Clears(e, semitones) == [e EXCEPT !.transpose = semitones, !.cache = {}]

SetTranspose(e, semitones) ==
  IF semitones # e.transpose THEN [e EXCEPT !.transpose = semitones] ELSE e

\* mutant: an envelope change that keeps the cache
SetEnvelope_KeepCache(e, attack_ms, release_ms) == [e EXCEPT !.attack_ms = attack_ms, !.release_ms = release_ms]

SetEnvelope(e, attack_ms, release_ms) ==
  IF attack_ms # e.attack_ms \/ release_ms # e.release_ms
  THEN [e EXCEPT !.attack_ms = attack_ms, !.release_ms = release_ms, !.cache = {}]
  ELSE e

\* _sample_for_phase: the shape that is synthesised, sine for an unknown name
SampleShape(waveform) == IF IsSupportedWaveform(waveform) THEN waveform ELSE "sine"

\* the cache key of _build_buffer
CacheKey(e, freq) == <<e.waveform, freq, e.volume, e.attack_ms, e.release_ms>>

\* the buffer _build_buffer synthesises under the current settings
Synthesise(e, freq) ==
  [shape |-> SampleShape(e.waveform), freq |-> freq, volume |-> e.volume,
   attack_ms |-> e.attack_ms, release_ms |-> e.release_ms]

\* _build_buffer: [synth, buffer]
BuildBuffer(e, freq) ==
  LET key == CacheKey(e, freq)
  IN IF \E c \in e.cache : c.key = key
     THEN [synth |-> e, buffer |-> (CHOOSE c \in e.cache : c.key = key).buf]
     ELSE [synth |-> [e EXCEPT !.cache = @ \cup {[key |-> key, buf |-> Synthesise(e, freq)]}],
           buffer |-> Synthesise(e, freq)]

HasKey(f, k) == k \in DOMAIN f

\* dict[k] = v
DictSet(f, k, v) == [x \in (DOMAIN f) \cup {k} |-> IF x = k THEN v ELSE f[x]]

\* dict.pop(k, None), the dict that is left
DictDrop(f, k) == [x \in (DOMAIN f) \ {k} |-> f[x]]

\* PlayObject.stop(): the voice, if it still sounds, leaves the device
StopVoice(vs, id) == {v \in vs : v.id # id}

\* the id of the PlayObject sa.play_buffer returns: one no live object carries
FreshVoiceId(e, vs) ==
  CHOOSE n \in 1..(Cardinality(vs) + Cardinality(DOMAIN e.playing) + 1) :
    /\ \A v \in vs : v.id # n
    /\ \A k \in DOMAIN e.playing : e.playing[k] # n

\* NoteSynth.note_on(key_id, default_note): [synth, voices, info]; sa_ok says
\* whether simpleaudio was imported, play_ok whether sa.play_buffer returns;
\* info.frequency = Overflowed stands for the OverflowError that leaves it
NoteOn(e, vs, sa_ok, play_ok, key_id, default_note) ==
  LET note_name == IF HasKey(e.key_notes, key_id) THEN e.key_notes[key_id]
                   ELSE IF default_note = <<>> THEN <<"C", "4">> ELSE default_note
      freq == NoteToFrequency(note_name, e.transpose)
      built == BuildBuffer(e, freq[1])
      e1 == built.synth
      vs1 == IF HasKey(e1.playing, key_id) THEN StopVoice(vs, e1.playing[key_id]) ELSE vs
      id == FreshVoiceId(e1, vs1)
  IN IF freq = NoneVal \/ freq = Overflowed
     THEN [synth |-> e, voices |-> vs, info |-> [note |-> note_name, frequency |-> freq]]
     ELSE IF ~sa_ok
     THEN [synth |-> LogOnce(e), voices |-> vs,
           info |-> [note |-> note_name, frequency |-> freq]]
     ELSE IF ~play_ok
     THEN [synth |-> e1, voices |-> vs1, info |-> [note |-> note_name, frequency |-> freq]]
     ELSE [synth |-> [e1 EXCEPT !.playing = DictSet(@, key_id, id)],
           voices |-> vs1 \cup {[id |-> id, key |-> key_id, age |-> 0, buf |-> built.buffer]},
           info |-> [note |-> note_name, frequency |-> freq]]

\* NoteSynth.note_off(key_id): [synth, voices]
NoteOff(e, vs, sa_ok, key_id) ==
  IF ~sa_ok \/ ~HasKey(e.playing, key_id)
  THEN [synth |-> e, voices |-> vs]
  ELSE [synth |-> [e EXCEPT !.playing = DictDrop(@, key_id)],
        voices |-> StopVoice(vs, e.playing[key_id])]

\* the synthetic key id of preview: f"preview-{note_name}"
PreviewKey(note_name) == <<"preview-">> \o note_name

\* _cleanup of preview, run by its timer
PreviewCleanup(e, key_id) == [e EXCEPT !.playing = DictDrop(@, key_id)]

\* NoteSynth.stop_all: [synth, voices]
StopAll(e, vs, sa_ok) ==
  IF ~sa_ok THEN [synth |-> e, voices |-> vs]
  ELSE [synth |-> [e EXCEPT !.playing = <<>>],
        voices |-> {v \in vs : \A k \in DOMAIN e.playing : e.playing[k] # v.id}]

(***************************************************************************)
(* SynthController (controller.py)                                         *)
(*                                                                         *)
(* The controller is a record [config, key_lookup, encoder_lookup,         *)
(* key_state, encoder_state, live_settings].  config is the object both    *)
(* self.config and the store's _cached refer to (every path that sets one  *)
(* sets the other to the same object).  key_lookup and encoder_lookup hold *)
(* references to the KeyConfig and EncoderConfig objects of config: a      *)
(* lookup maps an id to the position of its object in config.keys or       *)
(* config.encoders, so an assignment to a looked-up object's field is an   *)
(* assignment inside config.                                               *)
(***************************************************************************)
\* the last position of ids that holds id
LastIndex(ids, id) == CHOOSE i \in 1..Len(ids) : ids[i] = id /\ \A j \in (i + 1)..Len(ids) : ids[j] # id

KeyIdSeq(cfg) == [i \in 1..Len(cfg.keys) |-> cfg.keys[i].id]
EncNameSeq(cfg) == [i \in 1..Len(cfg.encoders) |-> cfg.encoders[i].name]
SeqRange(q) == {q[i] : i \in 1..Len(q)}

\* {item.id: item for item in config.matrix.keys}
BuildKeyLookup(cfg) == [id \in SeqRange(KeyIdSeq(cfg)) |-> LastIndex(KeyIdSeq(cfg), id)]

\* {enc.name: enc for enc in config.encoders}
BuildEncoderLookup(cfg) == [n \in SeqRange(EncNameSeq(cfg)) |-> LastIndex(EncNameSeq(cfg), n)]

\* {item.id: item.note for item in config.matrix.keys}
KeyNotesOf(cfg) == [id \in SeqRange(KeyIdSeq(cfg)) |-> cfg.keys[LastIndex(KeyIdSeq(cfg), id)].note]

\* the dict _apply_config builds from config.synth
LiveSettingsOf(settings) ==
  [waveform |-> settings.waveform, volume |-> settings.volume,
   transpose |-> settings.transpose, attack_ms |-> settings.attack_ms,
   release_ms |-> settings.release_ms]

\* mutant: the volume is not pushed to the engine
PushSettings_NoVolume(e, settings) ==
  SetEnvelope(SetTranspose(SetWaveform(e, settings.waveform), settings.transpose),
              settings.attack_ms, settings.release_ms)

\* the four setter calls that end _apply_config
PushSettings(e, settings) ==
  SetEnvelope(SetTranspose(SetVolume(SetWaveform(e, settings.waveform), settings.volume),
                           settings.transpose),
              settings.attack_ms, settings.release_ms)

\* mutant: the lookups are rebuilt, the runtime state is kept
ApplyTables_KeepState(c, cfg) ==
  [c EXCEPT !.config = cfg,
            !.key_lookup = BuildKeyLookup(cfg),
            !.encoder_lookup = BuildEncoderLookup(cfg)]

\* _apply_config up to the read of config.synth: lookups and runtime state
ApplyTables(c, cfg) ==
  [c EXCEPT !.config = cfg,
            !.key_lookup = BuildKeyLookup(cfg),
            !.encoder_lookup = BuildEncoderLookup(cfg),
            !.key_state = [id \in SeqRange(KeyIdSeq(cfg)) |-> FALSE],
            !.encoder_state = <<>>]

\* _apply_config from the read of config.synth on: [ctl, synth, ok].  A synth
\* section that is a plain dict has no attribute waveform: the read at line 44
\* raises, and what the earlier statements assigned stays
ApplySettings(c, e, cfg) ==
  IF "synth" \in cfg.raw
  THEN [ctl |-> c, synth |-> e, ok |-> FALSE]
  ELSE [ctl |-> [c EXCEPT !.live_settings = LiveSettingsOf(cfg.synth)],
        synth |-> PushSettings(e, cfg.synth),
        ok |-> TRUE]

\* SynthController._apply_config: [ctl, synth, ok]
ApplyConfig(c, e, cfg) ==
  ApplySettings(ApplyTables(c, cfg), SetKeyNotes(e, KeyNotesOf(cfg)), cfg)

\* the controller before its first _apply_config (SynthController.__init__)
CtlEmpty(cfg) ==
  [config |-> cfg, key_lookup |-> <<>>, encoder_lookup |-> <<>>,
   key_state |-> <<>>, encoder_state |-> <<>>, live_settings |-> <<>>]

\* the KeyConfig / EncoderConfig object a lookup entry refers to
KeyCfg(c, key_id) == c.config.keys[c.key_lookup[key_id]]
EncCfg(c, name) == c.config.encoders[c.encoder_lookup[name]]

\* SynthController.handle_key_event: [ctl, synth, voices, raised, event]; the
\* event is returned unless the call raised
HandleKeyEvent(c, e, vs, sa_ok, play_ok, kind, key_id) ==
  LET pressed == (kind = "press")
      c1 == [c EXCEPT !.key_state = DictSet(@, key_id, pressed)]
      key_cfg == KeyCfg(c, key_id)
      on == NoteOn(e, vs, sa_ok, play_ok, key_id, key_cfg.note)
      off == NoteOff(e, vs, sa_ok, key_id)
      freq == IF pressed THEN on.info.frequency
              ELSE NoteToFrequency(key_cfg.note, c.live_settings.transpose)
  IN IF ~HasKey(c.key_lookup, key_id)
     THEN [ctl |-> c1, synth |-> e, voices |-> vs, raised |-> FALSE,
           event |-> [type |-> "key", kind |-> kind, id |-> key_id,
                      note |-> NoneVal, freq |-> NoneVal]]
     ELSE [ctl |-> c1,
           synth |-> IF pressed THEN on.synth ELSE off.synth,
           voices |-> IF pressed THEN on.voices ELSE off.voices,
           raised |-> (freq = Overflowed),
           event |-> [type |-> "key", kind |-> kind, id |-> key_id,
                      note |-> Some(key_cfg.note), freq |-> freq]]

\* what a call of handle_key_event leaves in ret: the event it returned, or the
\* exception that left it
KeyRet(r, kind, key_id) ==
  IF r.raised
  THEN [op |-> "handle_key_event", outcome |-> "OverflowError", args |-> <<kind, key_id>>]
  ELSE [op |-> "handle_key_event", outcome |-> "ok", event |-> r.event]

\* int(x) for a count of 1e-9: truncation toward zero
IntTrunc(x) == IF x >= 0 THEN x \div VolOne ELSE 0 - ((0 - x) \div VolOne)

\* enc_cfg.step or default: None and 0 are both falsy
StepOr(step, default) ==
  IF step = NoneVal THEN default ELSE IF step[1] = 0 THEN default ELSE step[1]

\* mutant: the index lookup that always answers the first entry
WaveformIndex_First(w) == 0

WaveformIndex(w) ==
  IF IsSupportedWaveform(w)
  THEN (CHOOSE i \in 1..Len(SUPPORTED_WAVEFORMS) : SUPPORTED_WAVEFORMS[i] = w) - 1
  ELSE 0

\* mutant: the volume branch without its clamp
ClampVolume_NoClamp(v) == v

\* the clamps of the transpose and the volume branch of handle_encoder_event
ClampTranspose(t) == Clamp(t, TransposeMin, TransposeMax)
ClampVolume(v) == Clamp(v, 0, VolOne)

\* mutant: the event is reported and nothing is done or recorded
HandleEncoderEvent_Unrecorded(c, e, name, delta) ==
  IF name \notin DOMAIN c.encoder_lookup
  THEN [ctl |-> c, synth |-> e,
        event |-> [type |-> "enc", name |-> name, value |-> NoneVal, delta |-> delta]]
  ELSE [ctl |-> c, synth |-> e,
        event |-> [type |-> "enc", name |-> name,
                   action |-> c.config.encoders[c.encoder_lookup[name]].action,
                   value |-> NoneVal, delta |-> delta]]

\* SynthController.handle_encoder_event: [ctl, synth, event]
HandleEncoderEvent(c, e, name, delta) ==
  LET enc_cfg == EncCfg(c, name)
      action == enc_cfg.action
      tstep == IntTrunc(StepOr(enc_cfg.step, VolOne))
      transpose == ClampTranspose(c.live_settings.transpose + (delta * tstep))
      vstep == StepOr(enc_cfg.step, 50000000)
      volume == ClampVolume(c.live_settings.volume + (delta * vstep))
      idx == (WaveformIndex(c.live_settings.waveform) + delta) % Len(SUPPORTED_WAVEFORMS)
      waveform == SUPPORTED_WAVEFORMS[idx + 1]
      value == IF action = "transpose" THEN Some(transpose)
               ELSE IF action = "volume" THEN Some(volume)
               ELSE IF action = "waveform" THEN Some(waveform)
               ELSE NoneVal
      live == IF action = "transpose" THEN [c.live_settings EXCEPT !.transpose = transpose]
              ELSE IF action = "volume" THEN [c.live_settings EXCEPT !.volume = volume]
              ELSE IF action = "waveform" THEN [c.live_settings EXCEPT !.waveform = waveform]
              ELSE c.live_settings
      e1 == IF action = "transpose" THEN SetTranspose(e, transpose)
            ELSE IF action = "volume" THEN SetVolume(e, volume)
            ELSE IF action = "waveform" THEN SetWaveform(e, waveform)
            ELSE e
  IN IF ~HasKey(c.encoder_lookup, name)
     THEN [ctl |-> c, synth |-> e,
           event |-> [type |-> "enc", name |-> name, value |-> NoneVal, delta |-> delta]]
     ELSE [ctl |-> [c EXCEPT !.live_settings = live,
                             !.encoder_state = DictSet(@, name,
                                [action |-> action, value |-> value, delta |-> delta])],
           synth |-> e1,
           event |-> [type |-> "enc", name |-> name, action |-> action,
                      value |-> value, delta |-> delta]]

(***************************************************************************)
(* ConfigStore and the configuration-mutating operations.  Each operator   *)
(* returns [ctl, synth, file, outcome]: outcome is "ok" or the exception   *)
(* that reaches the caller.                                                *)
(***************************************************************************)
Outcome(c, e, f, o) == [ctl |-> c, synth |-> e, file |-> f, outcome |-> o]

\* the persisted write and the reconciliation that follow a model the store
\* accepted: write_text of the dump, then _apply_config
SaveAndApply(c, e, model) ==
  LET a == ApplyConfig(c, e, model)
  IN Outcome(a.ctl, a.synth, ModelDump(model), IF a.ok THEN "ok" ELSE "AttributeError")

\* ConfigStore.save(dict) followed by _apply_config: the body shared by
\* replace, set_key_note, set_encoder_action, update_encoder, update_synth_settings
SaveDictAndApply(c, e, f, payload) ==
  IF ~ValidDoc(payload)
  THEN Outcome(c, e, f, "ValidationError")
  ELSE SaveAndApply(c, e, ModelValidate(payload))

\* SynthController.replace
Replace(c, e, f, config_payload) == SaveDictAndApply(c, e, f, config_payload)

\* model_copy(update=payload) for a payload {field: value}: the value is taken
\* as it is, a model object (raw = FALSE) or a plain dict (raw = TRUE)
ModelCopyUpdate(cfg, p) ==
  LET flagged == IF p.raw THEN cfg.raw \cup {p.field} ELSE cfg.raw \ {p.field}
  IN IF p.field = "synth" THEN [cfg EXCEPT !.synth = p.value, !.raw = flagged]
     ELSE IF p.field = "app" THEN [cfg EXCEPT !.app = p.value, !.raw = flagged]
     ELSE IF p.field = "encoders" THEN [cfg EXCEPT !.encoders = p.value, !.raw = flagged]
     ELSE IF p.field = "matrix" THEN [cfg EXCEPT !.keys = p.value, !.raw = flagged]
     ELSE cfg

\* SynthController.update_part: ConfigStore.update merges into the cached
\* model and saves the merged model, which save takes without validating
UpdatePart(c, e, f, p) == SaveAndApply(c, e, ModelCopyUpdate(c.config, p))

\* SynthController.reload: ConfigStore.load validates what the file holds
Reload(c, e, f) ==
  IF ~ValidDoc(f) THEN Outcome(c, e, f, "ValidationError")
  ELSE LET a == ApplyConfig(c, e, ModelValidate(f))
       IN Outcome(a.ctl, a.synth, f, IF a.ok THEN "ok" ELSE "AttributeError")

\* key_cfg.note = note: the assignment to the looked-up object
AssignKeyNote(c, key_id, note) == [c EXCEPT !.config.keys[c.key_lookup[key_id]].note = note]

\* SynthController.set_key_note
SetKeyNote(c, e, f, key_id, note) ==
  LET c1 == AssignKeyNote(c, key_id, note)
      dump == ModelDump(c1.config)
      payload == [dump EXCEPT !.keys = [i \in 1..Len(dump.keys) |->
                     IF dump.keys[i].id = key_id
                     THEN [dump.keys[i] EXCEPT !.note = note] ELSE dump.keys[i]]]
  IN IF ~HasKey(c.key_lookup, key_id) THEN Outcome(c, e, f, "ValueError")
     ELSE SaveDictAndApply(c1, e, f, payload)

\* enc_cfg.action = action: the assignment to the looked-up object
AssignEncoderAction(c, name, action) ==
  [c EXCEPT !.config.encoders[c.encoder_lookup[name]].action = action]

\* SynthController.set_encoder_action
SetEncoderAction(c, e, f, name, action) ==
  LET c1 == AssignEncoderAction(c, name, action)
      dump == ModelDump(c1.config)
      payload == [dump EXCEPT !.encoders = [i \in 1..Len(dump.encoders) |->
                     IF dump.encoders[i].name = name
                     THEN [dump.encoders[i] EXCEPT !.action = action] ELSE dump.encoders[i]]]
  IN IF ~HasKey(c.encoder_lookup, name) THEN Outcome(c, e, f, "ValueError")
     ELSE SaveDictAndApply(c1, e, f, payload)

\* dict.update(upd) on a record: fields of upd the record does not model are dropped
RecUpdate(rec, upd) ==
  [k \in DOMAIN rec |-> IF k \in DOMAIN upd THEN upd[k] ELSE rec[k]]

\* {k: v for k, v in update_data.items() if k in allowed}
Filtered(update_data, allowed) ==
  [k \in (DOMAIN update_data) \cap allowed |-> update_data[k]]

EncoderAllowed == {"action", "step", "minimum", "maximum"}
SynthAllowed == {"waveform", "volume", "transpose", "attack_ms", "release_ms"}

\* SynthController.update_encoder
UpdateEncoder(c, e, f, name, update_data) ==
  LET filtered == Filtered(update_data, EncoderAllowed)
      dump == ModelDump(c.config)
      payload == [dump EXCEPT !.encoders = [i \in 1..Len(dump.encoders) |->
                     IF dump.encoders[i].name = name
                     THEN RecUpdate(dump.encoders[i], filtered) ELSE dump.encoders[i]]]
  IN IF ~HasKey(c.encoder_lookup, name) THEN Outcome(c, e, f, "ValueError")
     ELSE IF DOMAIN filtered = {} THEN Outcome(c, e, f, "ValueError")
     ELSE SaveDictAndApply(c, e, f, payload)

\* SynthController.update_synth_settings
UpdateSynthSettings(c, e, f, update_data) ==
  LET filtered == Filtered(update_data, SynthAllowed)
      dump == ModelDump(c.config)
      payload == [dump EXCEPT !.synth = RecUpdate(dump.synth, filtered)]
  IN IF DOMAIN filtered = {} THEN Outcome(c, e, f, "ValueError")
     ELSE SaveDictAndApply(c, e, f, payload)

(***************************************************************************)
(* State                                                                   *)
(***************************************************************************)
VARIABLES
  \* MatrixScanner (matrix.py) and the clock it reads
  key_map,       \* self.key_map: the key definitions it was built from
  scan_state,    \* self.state: key id -> pressed
  last_change,   \* self.last_change: key id -> time of the last accepted edge
  now,           \* time.time(), in milliseconds
  sampled,       \* pin levels read in the last pass: <<row, col>> -> 0 | 1
  scan_events,   \* the list the last scan_once call returned
  last_emit      \* history: key id -> time of the last event returned for it, or NoneVal

scanVars == <<key_map, scan_state, last_change, now, sampled, scan_events, last_emit>>

VARIABLES
  file,          \* the persisted document (the YAML file of the ConfigStore)
  ctl,           \* the SynthController
  synth,         \* the NoteSynth
  sa,            \* whether simpleaudio was imported (sa is not None)
  voices,        \* the audio device: the voices that sound
  timers,        \* the pending cleanup timers of preview, oldest first
  ret,           \* the last step: the call and what it returned or raised
  nops,          \* number of calls made so far
  pre            \* history: file, ctl, synth and voices as the last step found them

ctlVars == <<file, ctl, synth, sa, voices, timers, ret, nops, pre>>

VARIABLES
  \* the asyncio event loop of main() and the GPIO callback thread
  pc,            \* where the loop thread is: "idle" between callbacks, or inside _apply_config;
                 \* for main() also "boot" before the loops, "finally" and "exited" after them
  lock,          \* whether SynthController._lock is held
  job,           \* the mutation the loop thread is running: its name and the model it applies
  queue,         \* callbacks posted with call_soon_threadsafe and not yet run
  epoch,         \* history: the call that last assigned the tables, and the live settings
  callbacks      \* names of the Encoders whose pigpio callbacks cbA, cbB are registered

concVars == <<pc, lock, job, queue, epoch, callbacks>>

VARIABLES
  \* the websocket subscribers of the web server (web/server.py)
  clients,       \* the module-level set of connected WebSocket objects
  next_ws,       \* history: the number the next connecting WebSocket gets
  deliveries,    \* the notify_clients calls: position, snapshot, clients left, dead list
  \* one Encoder object (encoder.py)
  level_A,       \* self.level_A
  level_B,       \* self.level_B
  enc_log        \* history: the edges received and what each made the callback emit

ioVars == <<clients, next_ws, deliveries, level_A, level_B, enc_log>>

vars == <<scanVars, ctlVars, concVars, ioVars>>

\* the web subscribers and the Encoder object while they are not modelled
IoIdle ==
  /\ clients = {} /\ next_ws = 1 /\ deliveries = <<>>
  /\ level_A = 0 /\ level_B = 0 /\ enc_log = <<>>

\* the controller side while only the scanner runs
CtlIdle ==
  /\ file = <<>> /\ ctl = <<>> /\ synth = <<>> /\ sa = FALSE
  /\ voices = {} /\ timers = <<>> /\ ret = <<>> /\ nops = 0 /\ pre = <<>>

\* the event loop while no mutation is in progress and nothing is posted
LoopIdle ==
  /\ pc = "idle" /\ lock = FALSE /\ job = <<>> /\ queue = <<>>
  /\ epoch = [tables |-> 0, settings |-> 0]

\* the scanner side while only the controller runs
ScanIdle ==
  /\ key_map = <<>> /\ scan_state = <<>> /\ last_change = <<>> /\ now = 0
  /\ sampled = <<>> /\ scan_events = <<>> /\ last_emit = <<>>

(***************************************************************************)
(* MatrixScanner                                                           *)
(***************************************************************************)
\* debounce_ms the scanner is built with (app.debounce_ms of the configuration)
DebounceMs == 3
\* the clock stops advancing at MaxTime; one pass is at most MaxDt after the last
MaxTime == 9
MaxDt == 2

\* matrix.rows and matrix.cols: name -> pin, in dict order
ScanRows == << [name |-> "ROW0", pin |-> 2], [name |-> "ROW1", pin |-> 3] >>
ScanCols == << [name |-> "COL0", pin |-> 18], [name |-> "COL1", pin |-> 6] >>

RowPin(name) == ScanRows[CHOOSE i \in 1..Len(ScanRows) : ScanRows[i].name = name].pin
ColPin(name) == ScanCols[CHOOSE i \in 1..Len(ScanCols) : ScanCols[i].name = name].pin

\* the key maps a scanner is built from in this model
ScanKeyMaps ==
  { << [id |-> <<"MX1">>, row |-> "ROW0", col |-> "COL0"],
       [id |-> <<"MX2">>, row |-> "ROW1", col |-> "COL1"] >>,
    << [id |-> <<"MX1">>, row |-> "ROW0", col |-> "COL0"],
       [id |-> <<"MX2">>, row |-> "ROW1", col |-> "COL0"],
       [id |-> <<"MX3">>, row |-> "ROW1", col |-> "COL0"] >> }

\* the (row pin, column pin) pairs of the matrix
Positions ==
  {<<ScanRows[i].pin, ScanCols[j].pin>> : i \in 1..Len(ScanRows), j \in 1..Len(ScanCols)}

\* self.lookup: the dict built by the constructor's loop, a later key of the
\* same position replacing an earlier one; <<>> (the empty id, which the loop
\* skips like a missing one) where the position has no key
RECURSIVE BuildLookup(_, _)
BuildLookup(km, acc) ==
  IF km = <<>> THEN acc
  ELSE BuildLookup(Tail(km),
         [acc EXCEPT ![<<RowPin(Head(km).row), ColPin(Head(km).col)>>] = Head(km).id])

Lookup(km) == BuildLookup(km, [p \in Positions |-> <<>>])

KeyIds(km) == {km[i].id : i \in 1..Len(km)}

\* the positions in the order the two loops of scan_once visit them
ScanOrder ==
  [i \in 1..(Len(ScanRows) * Len(ScanCols)) |->
     <<ScanRows[((i - 1) \div Len(ScanCols)) + 1].pin,
       ScanCols[((i - 1) % Len(ScanCols)) + 1].pin>>]

\* mutant: no debounce window
DebounceElapsed_NoWindow(tnow, last) == TRUE

\* the debounce test of one sampled change
DebounceElapsed(tnow, last) == (tnow - last) >= DebounceMs

\* mutant: an accepted change is reported and the stored state is kept
ScanPosition_StateKept(s, lookup, pos, val, tnow) ==
  LET key_id == lookup[pos]
      pressed == (val = 0)
  IN IF key_id = <<>> THEN s
     ELSE IF pressed # s.state[key_id] /\ (tnow - s.last_change[key_id]) >= DebounceMs
          THEN [state |-> s.state,
                last_change |-> [s.last_change EXCEPT ![key_id] = tnow],
                events |-> Append(s.events,
                             <<(IF pressed THEN "press" ELSE "release"), key_id>>)]
          ELSE s

\* the body of the inner loop for one position, on the scanner state
\* s = [state, last_change, events]
ScanPosition(s, lookup, pos, val, tnow) ==
  LET key_id == lookup[pos]
      pressed == (val = 0)
  IN IF key_id = <<>> THEN s
     ELSE IF pressed # s.state[key_id] /\ DebounceElapsed(tnow, s.last_change[key_id])
          THEN [state |-> [s.state EXCEPT ![key_id] = pressed],
                last_change |-> [s.last_change EXCEPT ![key_id] = tnow],
                events |-> Append(s.events,
                             <<(IF pressed THEN "press" ELSE "release"), key_id>>)]
          ELSE s

RECURSIVE ScanFold(_, _, _, _, _)
ScanFold(s, lookup, order, samples, tnow) ==
  IF order = <<>> THEN s
  ELSE ScanFold(ScanPosition(s, lookup, Head(order), samples[Head(order)], tnow),
                lookup, Tail(order), samples, tnow)

\* what the pins can read: a position without a switch reads the pull-up level
Samples(km) ==
  {f \in [Positions -> {0, 1}] : \A p \in Positions : Lookup(km)[p] = <<>> => f[p] = 1}

ScanInit ==
  /\ key_map \in ScanKeyMaps
  /\ scan_state = [k \in KeyIds(key_map) |-> FALSE]
  /\ last_change = [k \in KeyIds(key_map) |-> 0]
  /\ now = DebounceMs
  /\ sampled = [p \in Positions |-> 1]
  /\ scan_events = <<>>
  /\ last_emit = [k \in KeyIds(key_map) |-> NoneVal]
  /\ CtlIdle
  /\ LoopIdle
  /\ callbacks = {}
  /\ IoIdle

\* MatrixScanner.scan_once, dt after the previous pass
ScanOnce(dt, samples) ==
  LET tnow == now + dt
      r == ScanFold([state |-> scan_state, last_change |-> last_change, events |-> <<>>],
                    Lookup(key_map), ScanOrder, samples, tnow)
  IN /\ tnow <= MaxTime
     /\ now' = tnow
     /\ sampled' = samples
     /\ scan_state' = r.state
     /\ last_change' = r.last_change
     /\ scan_events' = r.events
     /\ last_emit' = [k \in KeyIds(key_map) |->
                        IF \E i \in 1..Len(r.events) : r.events[i][2] = k
                        THEN Some(tnow) ELSE last_emit[k]]
     /\ UNCHANGED <<key_map, ctlVars, concVars, ioVars>>

ScanNext == \E dt \in 0..MaxDt : \E samples \in Samples(key_map) : ScanOnce(dt, samples)

SpecScan == ScanInit /\ [][ScanNext]_vars

EventsOf(evs, k) == {i \in 1..Len(evs) : evs[i][2] = k}

\* C1: a pass emits a transition for a key only if the sampled state differs
\* from the key's last accepted state and at least the debounce window has
\* passed since the last event emitted for that key; the event carries the
\* sampled state; a change no longer present emits nothing in this or a later
\* pass; and a change still present once the window has elapsed is emitted.
C1_Debounce ==
  [][\A p \in Positions :
       LET k == Lookup(key_map)[p]
           pressed == (sampled'[p] = 0)
           emitted == EventsOf(scan_events', k)
           elapsed == last_emit[k] = NoneVal \/ now' - last_emit[k][1] >= DebounceMs
       IN k # <<>> =>
            /\ emitted # {} => /\ pressed # scan_state[k]
                               /\ elapsed
                               /\ Cardinality(emitted) = 1
                               /\ \A i \in emitted :
                                    scan_events'[i][1] = (IF pressed THEN "press" ELSE "release")
            /\ pressed = scan_state[k] => emitted = {}
            /\ (pressed # scan_state[k] /\ elapsed) => emitted # {}
    ]_vars

\* C1 witness: a key whose press was accepted is sampled released inside the
\* window, and the pass returned nothing for it
C1_Witness ==
  \E p \in Positions :
    LET k == Lookup(key_map)[p]
    IN /\ k # <<>>
       /\ scan_state[k]
       /\ sampled[p] = 1
       /\ EventsOf(scan_events, k) = {}
       /\ last_emit[k] # NoneVal
       /\ now - last_emit[k][1] < DebounceMs
       /\ now > last_emit[k][1]

(***************************************************************************)
(* The controller driven by encoder events alone                           *)
(***************************************************************************)
\* a valid document: two keys, a transpose encoder with step 1, a volume
\* encoder without a step, the synth section of default_config
DocA ==
  [keys |-> << [id |-> <<"MX1">>, note |-> <<"C", "4">>],
               [id |-> <<"MX2">>, note |-> <<"D", "4">>] >>,
   encoders |-> << [name |-> "SW1", action |-> "transpose", step |-> Some(VolOne)],
                   [name |-> "SW2", action |-> "volume", step |-> NoneVal] >>,
   synth |-> [waveform |-> "sine", volume |-> 700000000, transpose |-> 0,
              attack_ms |-> 5, release_ms |-> 180],
   app |-> [debounce_ms |-> 12],
   raw |-> {}]

\* another valid document: a flat note, steps of 0.5 and 1.5, limits of the ranges
DocB ==
  [keys |-> << [id |-> <<"MX1">>, note |-> <<"D", "b", "4">>] >>,
   encoders |-> << [name |-> "SW1", action |-> "volume", step |-> Some(500000000)],
                   [name |-> "SW2", action |-> "transpose", step |-> Some(1500000000)],
                   [name |-> "SW3", action |-> "waveform", step |-> Some(2000000000)],
                   [name |-> "SW4", action |-> "none", step |-> NoneVal] >>,
   synth |-> [waveform |-> "square", volume |-> VolOne, transpose |-> 24,
              attack_ms |-> 0, release_ms |-> 10],
   app |-> [debounce_ms |-> 1],
   raw |-> {}]

StartDocs == {DocA, DocB}

\* the steps an Encoder emits
Deltas == {-1, 1}

EncoderNames == {"SW1", "SW2", "SW3", "SW4", "SW9"}

\* main(): the store loads the document, the controller applies it
Startup(doc) ==
  LET m == ModelValidate(doc)
      a == ApplyConfig(CtlEmpty(m), SynthInit, m)
  IN /\ ValidDoc(doc)
     /\ file = doc
     /\ ctl = a.ctl
     /\ synth = a.synth
     /\ voices = {}
     /\ timers = <<>>
     /\ ret = [op |-> "startup", outcome |-> "ok"]
     /\ nops = 0
     /\ pre = [file |-> doc, ctl |-> CtlEmpty(m), synth |-> SynthInit, voices |-> {}]

CtlInit ==
  /\ ScanIdle
  /\ IoIdle
  /\ LoopIdle
  /\ sa = TRUE
  /\ \E doc \in StartDocs : Startup(doc) /\ callbacks = SeqRange(EncNameSeq(doc))

\* the snapshot a call leaves in pre
Snapshot == [file |-> file, ctl |-> ctl, synth |-> synth, voices |-> voices]

\* process_encoder: one handle_encoder_event call
EncoderEvent(name, delta) ==
  LET r == HandleEncoderEvent(ctl, synth, name, delta)
  IN /\ ctl' = r.ctl
     /\ synth' = r.synth
     /\ ret' = [op |-> "handle_encoder_event", outcome |-> "ok", event |-> r.event]
     /\ pre' = Snapshot
     /\ UNCHANGED <<file, sa, voices, timers, nops, scanVars, ioVars, concVars>>

EncNext == \E name \in EncoderNames : \E delta \in Deltas : EncoderEvent(name, delta)

SpecEnc == CtlInit /\ [][EncNext]_vars

\* C2: from any valid configuration, after any sequence of handle_encoder_event
\* calls the live transpose is an integer in [-24, 24] and the live volume is
\* in [0, 1], and so are the transpose and the volume of the audio engine.
C2_Ranges ==
  /\ ctl.live_settings.transpose \in TransposeMin..TransposeMax
  /\ 0 <= ctl.live_settings.volume /\ ctl.live_settings.volume <= VolOne
  /\ synth.transpose \in TransposeMin..TransposeMax
  /\ 0 <= synth.volume /\ synth.volume <= VolOne

\* C2 witness: encoder events have driven the live transpose to its upper limit
\* and the live volume to its lower limit, the last one being a step down
C2_Witness ==
  /\ ret.op = "handle_encoder_event"
  /\ "action" \in DOMAIN ret.event
  /\ ret.event.action = "volume"
  /\ ret.event.delta = -1
  /\ ctl.live_settings.volume = 0
  /\ synth.volume = 0
  /\ ctl.live_settings.transpose = TransposeMax
  /\ synth.transpose = TransposeMax
  /\ ctl.config.synth.transpose = 0


(***************************************************************************)
(* The controller under configuration mutations, reloads and events        *)
(***************************************************************************)
\* at most MaxCalls calls are made on the controller
MaxCalls == 3

\* the payloads of replace; the last has a waveform that is not supported
ReplacePayloads ==
  {DocA, DocB, [DocA EXCEPT !.synth.waveform = "noise"],
   [DocA EXCEPT !.keys = Append(@, [id |-> <<"MX1">>, note |-> <<"E", "4">>]),
                !.encoders = Append(@, [name |-> "SW1", action |-> "none",
                                        step |-> NoneVal])]}

\* the payloads of update_part: a complete synth section as a SynthSettings
\* object and as a plain dict, and an app section (a plain dict) whose
\* debounce_ms is 0
PartPayloads ==
  { [field |-> "synth", raw |-> r,
     value |-> [waveform |-> "square", volume |-> VolOne - 1, transpose |-> 12,
                attack_ms |-> 5, release_ms |-> 180]] : r \in BOOLEAN }
  \cup { [field |-> "app", raw |-> TRUE, value |-> [debounce_ms |-> 0]] }

CtlKeyIds == {<<"MX1">>, <<"MX2">>, <<"MX9">>}
NoteInputs == {<<"d", "4">>, <<"X", "9">>}
CtlEncoderNames == {"SW1", "SW2", "SW4", "SW9"}
SynthUpdates ==
  {[volume |-> VolOne - 1], [waveform |-> "noise"], [transpose |-> 5], [bogus |-> 1]}

\* one awaited call of a mutating operation or of reload: r is what it leaves
Call(op, args, r) ==
  /\ nops < MaxCalls
  /\ nops' = nops + 1
  /\ pre' = Snapshot
  /\ ctl' = r.ctl
  /\ synth' = r.synth
  /\ file' = r.file
  /\ ret' = [op |-> op, args |-> args, outcome |-> r.outcome]
  /\ UNCHANGED <<sa, voices, timers, scanVars, ioVars, concVars>>

\* process_key: one handle_key_event call
KeyEvent(kind, key_id) ==
  LET r == HandleKeyEvent(ctl, synth, voices, sa, TRUE, kind, key_id)
  IN /\ nops < MaxCalls
     /\ nops' = nops + 1
     /\ pre' = Snapshot
     /\ ctl' = r.ctl
     /\ synth' = r.synth
     /\ voices' = r.voices
     /\ ret' = KeyRet(r, kind, key_id)
     /\ UNCHANGED <<file, sa, timers, scanVars, ioVars, concVars>>

\* process_encoder, counted as a call
CountedEncoderEvent(name, delta) ==
  LET r == HandleEncoderEvent(ctl, synth, name, delta)
  IN /\ nops < MaxCalls
     /\ nops' = nops + 1
     /\ pre' = Snapshot
     /\ ctl' = r.ctl
     /\ synth' = r.synth
     /\ ret' = [op |-> "handle_encoder_event", outcome |-> "ok", event |-> r.event]
     /\ UNCHANGED <<file, sa, voices, timers, scanVars, ioVars, concVars>>

CtlNext ==
  \/ \E payload \in ReplacePayloads :
       Call("replace", payload, Replace(ctl, synth, file, payload))
  \/ \E p \in PartPayloads : Call("update_part", p, UpdatePart(ctl, synth, file, p))
  \/ Call("reload", <<>>, Reload(ctl, synth, file))
  \/ \E key_id \in {<<"MX1">>, <<"MX9">>} : \E note \in NoteInputs :
       Call("set_key_note", <<key_id, note>>, SetKeyNote(ctl, synth, file, key_id, note))
  \/ \E name \in {"SW1", "SW9"} : \E action \in {"volume", "bogus"} :
       Call("set_encoder_action", <<name, action>>,
            SetEncoderAction(ctl, synth, file, name, action))
  \/ \E name \in {"SW1", "SW9"} :
       \E update_data \in {[action |-> "waveform"], [step |-> Some(0)], [label |-> "x"]} :
         Call("update_encoder", <<name, update_data>>,
              UpdateEncoder(ctl, synth, file, name, update_data))
  \/ \E update_data \in SynthUpdates :
       Call("update_synth_settings", update_data,
            UpdateSynthSettings(ctl, synth, file, update_data))
  \/ \E kind \in {"press", "release"} : \E key_id \in CtlKeyIds : KeyEvent(kind, key_id)
  \/ \E name \in CtlEncoderNames : \E delta \in Deltas : CountedEncoderEvent(name, delta)

SpecCtl == CtlInit /\ [][CtlNext]_vars

\* the operations that change the configuration
MutationOps ==
  {"replace", "update_part", "set_key_note", "set_encoder_action",
   "update_encoder", "update_synth_settings"}

\* the errors of a rejected call
RejectedOutcomes == {"ValidationError", "ValueError"}

\* C3: every configuration-mutating operation validates the complete resulting
\* document before it writes, so the persisted document is at all times a valid
\* configuration.
C3_WrittenDocumentValid == ValidDoc(file)

\* C4: a rejected mutation (validation failure, unknown key or encoder, no
\* permitted fields) leaves the controller's configuration with its key and
\* encoder definitions, the lookup tables, the runtime state, the engine's
\* key-to-note mapping and the persisted document as they were before the call.
C4_RejectedChangesNothing ==
  (ret.op \in MutationOps /\ ret.outcome \in RejectedOutcomes) =>
    /\ ctl = pre.ctl
    /\ file = pre.file
    /\ synth.key_notes = pre.synth.key_notes

\* C5: after a successful mutation or reload the key lookup and the encoder
\* lookup hold exactly the keys and encoders of the new configuration, the key
\* state has exactly the configured key ids, all of them released, and the
\* encoder history is empty, whatever was pressed or recorded before.
C5_Reconciled ==
  (ret.op \in MutationOps \cup {"reload"} /\ ret.outcome = "ok") =>
    /\ KeyIdSeq(ctl.config) = KeyIdSeq(file)
    /\ EncNameSeq(ctl.config) = EncNameSeq(file)
    /\ DOMAIN ctl.key_lookup = SeqRange(KeyIdSeq(ctl.config))
    /\ \A id \in DOMAIN ctl.key_lookup :
         /\ KeyCfg(ctl, id).id = id
         /\ \A i \in 1..Len(ctl.config.keys) :
              ctl.config.keys[i].id = id => i <= ctl.key_lookup[id]
    /\ DOMAIN ctl.encoder_lookup = SeqRange(EncNameSeq(ctl.config))
    /\ \A n \in DOMAIN ctl.encoder_lookup :
         /\ EncCfg(ctl, n).name = n
         /\ \A i \in 1..Len(ctl.config.encoders) :
              ctl.config.encoders[i].name = n => i <= ctl.encoder_lookup[n]
    /\ DOMAIN ctl.key_state = SeqRange(KeyIdSeq(ctl.config))
    /\ \A id \in DOMAIN ctl.key_state : ctl.key_state[id] = FALSE
    /\ ctl.encoder_state = <<>>

\* C5 witness: a successful replace that found a key pressed, a key id the
\* configuration does not have in the key state, and a recorded encoder event,
\* and installed a configuration with other keys
C5_Witness ==
  /\ ret.op = "replace"
  /\ ret.outcome = "ok"
  /\ \E id \in DOMAIN pre.ctl.key_state :
       pre.ctl.key_state[id] /\ id \notin DOMAIN pre.ctl.key_lookup
  /\ pre.ctl.encoder_state # <<>>
  /\ KeyIdSeq(ctl.config) # KeyIdSeq(pre.ctl.config)

\* C6 as stated: after a successful mutation or reload the live settings equal
\* the synth section of the new configuration, and the engine's waveform,
\* volume, transpose, attack_ms, release_ms and key-to-note mapping equal the
\* live settings and the new key definitions.
C6_EngineEqualsLive ==
  (ret.op \in MutationOps \cup {"reload"} /\ ret.outcome = "ok") =>
    /\ ctl.live_settings = LiveSettingsOf(ctl.config.synth)
    /\ synth.waveform = ctl.live_settings.waveform
    /\ synth.volume = ctl.live_settings.volume
    /\ synth.transpose = ctl.live_settings.transpose
    /\ synth.attack_ms = ctl.live_settings.attack_ms
    /\ synth.release_ms = ctl.live_settings.release_ms
    /\ synth.key_notes = KeyNotesOf(ctl.config)

\* C6, amended: after a successful mutation or reload the live settings equal
\* the synth section of the new configuration, the engine's waveform,
\* transpose, attack_ms, release_ms and key-to-note mapping equal the live
\* settings and the new key definitions, and the engine's volume is within the
\* tolerance of math.isclose of the live volume clamped to [0, 1].
C6_EngineTracksLive ==
  (ret.op \in MutationOps \cup {"reload"} /\ ret.outcome = "ok") =>
    /\ ctl.live_settings = LiveSettingsOf(ctl.config.synth)
    /\ synth.waveform = ctl.live_settings.waveform
    /\ IsClose(synth.volume, Clamp(ctl.live_settings.volume, 0, VolOne))
    /\ synth.transpose = ctl.live_settings.transpose
    /\ synth.attack_ms = ctl.live_settings.attack_ms
    /\ synth.release_ms = ctl.live_settings.release_ms
    /\ synth.key_notes = KeyNotesOf(ctl.config)

\* C6 witness: a successful update_synth_settings after which the engine keeps
\* a volume that is not the live one
C6_Witness ==
  /\ ret.op = "update_synth_settings"
  /\ ret.outcome = "ok"
  /\ ctl.live_settings.volume = VolOne - 1
  /\ synth.volume = VolOne
  /\ pre.ctl.live_settings.volume = VolOne

(***************************************************************************)
(* The audio engine on its own: setters, playback, preview timers          *)
(*                                                                         *)
(* Time advances in seconds.  A voice sounds until it is stopped or has    *)
(* played its VoiceDuration seconds.  The cleanup timer of a preview is    *)
(* due 0.1 s after that: it fires after the tick that ends its voice and   *)
(* before the next tick.                                                   *)
(***************************************************************************)
\* at most MaxSynthCalls calls are made on the engine
MaxSynthCalls == 4

\* the key-to-note mappings given to set_key_notes
KeyNoteInputs == {<<>>, [k \in {<<"MX1">>} |-> <<"D", "4">>]}

EngineInit ==
  /\ ScanIdle
  /\ IoIdle
  /\ LoopIdle
  /\ callbacks = {}
  /\ file = <<>>
  /\ ctl = <<>>
  /\ sa \in BOOLEAN
  /\ synth = NewSynth(sa)
  /\ voices = {}
  /\ timers = <<>>
  /\ ret = [op |-> "init", args |-> <<>>]
  /\ nops = 0
  /\ pre = [file |-> <<>>, ctl |-> <<>>, synth |-> NewSynth(sa), voices |-> {}]

\* one call on the engine that leaves the engine e and the device vs
EngineCall(op, args, e, vs) ==
  /\ nops < MaxSynthCalls
  /\ nops' = nops + 1
  /\ pre' = Snapshot
  /\ synth' = e
  /\ voices' = vs
  /\ ret' = [op |-> op, args |-> args]
  /\ UNCHANGED <<file, ctl, sa, scanVars, ioVars, concVars>>

DoNoteOn(key_id, play_ok) ==
  LET r == NoteOn(synth, voices, sa, play_ok, key_id, <<"C", "4">>)
  IN /\ Cardinality(voices) < MaxVoices
     /\ EngineCall("note_on", key_id, r.synth, r.voices)
     /\ UNCHANGED timers

DoNoteOff(key_id) ==
  LET r == NoteOff(synth, voices, sa, key_id)
  IN EngineCall("note_off", key_id, r.synth, r.voices) /\ UNCHANGED timers

\* NoteSynth.preview: note_on under the synthetic key id, and the cleanup timer
DoPreview(note_name) ==
  LET key_id == PreviewKey(note_name)
      r == NoteOn(synth, voices, sa, TRUE, key_id, note_name)
  IN /\ Cardinality(voices) < MaxVoices
     /\ EngineCall("preview", key_id, r.synth, r.voices)
     /\ timers' = IF sa THEN Append(timers, [key |-> key_id, age |-> 0]) ELSE timers

DoStopAll ==
  LET r == StopAll(synth, voices, sa)
  IN EngineCall("stop_all", <<>>, r.synth, r.voices) /\ UNCHANGED timers

\* one second passes: voices that have played out leave the device
Tick ==
  /\ voices # {} \/ timers # <<>>
  /\ \A i \in 1..Len(timers) : timers[i].age < VoiceDuration
  /\ voices' = {[v EXCEPT !.age = @ + 1] : v \in {w \in voices : w.age + 1 < VoiceDuration}}
  /\ timers' = [i \in 1..Len(timers) |-> [timers[i] EXCEPT !.age = @ + 1]]
  /\ ret' = [op |-> "tick", args |-> <<>>]
  /\ pre' = Snapshot
  /\ UNCHANGED <<file, ctl, synth, sa, nops, scanVars, ioVars, concVars>>

\* the oldest cleanup timer fires
Cleanup ==
  /\ timers # <<>>
  /\ Head(timers).age >= VoiceDuration
  /\ synth' = PreviewCleanup(synth, Head(timers).key)
  /\ timers' = Tail(timers)
  /\ ret' = [op |-> "cleanup", args |-> Head(timers).key]
  /\ pre' = Snapshot
  /\ UNCHANGED <<file, ctl, sa, voices, nops, scanVars, ioVars, concVars>>

\* a setter call, or the setter calls of _apply_config: the engine e is left
SetterCall(op, args, e) == EngineCall(op, args, e, voices) /\ UNCHANGED timers

\* volumes: 1.0, 0.999999999 and 1.5; the keys are MX1, MX2 and a key whose id
\* is preview-C4, pressed while a cleanup for that id is pending
EngineNext ==
  \/ \E w \in {"sine", "square"} : SetterCall("set_waveform", w, SetWaveform(synth, w))
  \/ \E v \in {VolOne, VolOne - 1, 1500000000} :
       SetterCall("set_volume", v, SetVolume(synth, v))
  \/ \E t \in {0, 12} : SetterCall("set_transpose", t, SetTranspose(synth, t))
  \/ \E env \in {<<5, 160>>, <<0, 10>>} :
       SetterCall("set_envelope", env, SetEnvelope(synth, env[1], env[2]))
  \/ \E mapping \in KeyNoteInputs :
       SetterCall("set_key_notes", mapping, SetKeyNotes(synth, mapping))
  \/ \E mapping \in KeyNoteInputs :
       \E settings \in
           { [waveform |-> "sine", volume |-> VolOne, transpose |-> t,
              attack_ms |-> 5, release_ms |-> 160] : t \in {0, 12} }
           \cup { [waveform |-> "square", volume |-> 700000000, transpose |-> 0,
                   attack_ms |-> 0, release_ms |-> 10] } :
         SetterCall("reconcile", [mapping |-> mapping, settings |-> settings],
                    PushSettings(SetKeyNotes(synth, mapping), settings))
  \/ \E key_id \in {<<"MX1">>, <<"MX2">>} : \E play_ok \in BOOLEAN : DoNoteOn(key_id, play_ok)
  \/ /\ \E i \in 1..Len(timers) : timers[i].key = <<"preview-", "C", "4">>
     /\ DoNoteOn(<<"preview-", "C", "4">>, TRUE)
  \/ \E key_id \in {<<"MX1">>, <<"MX2">>} : DoNoteOff(key_id)
  \/ \E note_name \in {<<"C", "4">>, <<"X", "9">>} : DoPreview(note_name)
  \/ DoStopAll
  \/ Tick
  \/ Cleanup

SpecSynth == EngineInit /\ [][EngineNext]_vars

\* C8: in every reachable state of the engine each key id has at most one
\* sounding voice, and starting or stopping a voice for one key leaves the
\* sounding voices of the other keys as they were.
C8_OneVoicePerKey ==
  /\ \A v \in voices : \A w \in voices : v.key = w.key => v = w
  /\ ret.op \in {"note_on", "note_off", "preview"} =>
       \A v \in pre.voices : v.key # ret.args => \E w \in voices : w.id = v.id

\* C9 as stated: whenever waveform, volume, attack_ms or release_ms is set to a
\* value different from the current one the whole cache is emptied, and a
\* note_on plays a buffer generated under the settings in effect.
C9_ClearedOnDifferentValue ==
  /\ (ret.op = "set_waveform" /\ ret.args # pre.synth.waveform) => synth.cache = {}
  /\ (ret.op = "set_volume" /\ ret.args # pre.synth.volume) => synth.cache = {}
  /\ (ret.op = "set_envelope" /\ ret.args # <<pre.synth.attack_ms, pre.synth.release_ms>>)
       => synth.cache = {}
  /\ ret.op \in {"note_on", "preview"} =>
       \A v \in {x \in voices : \A w \in pre.voices : w.id # x.id} :
         v.buf = Synthesise(synth, v.buf.freq)

\* C9, amended: the cache is emptied whenever the waveform, attack_ms or
\* release_ms is set to a value different from the current one, and whenever
\* the volume is set to a value that, clamped to [0, 1], is not within the
\* tolerance of math.isclose of the current one; a note_on plays a buffer
\* generated under the settings in effect.
C9_ClearedOnEffectiveChange ==
  /\ (ret.op = "set_waveform" /\ ret.args # pre.synth.waveform) => synth.cache = {}
  /\ (ret.op = "set_volume" /\ ~IsClose(Clamp(ret.args, 0, VolOne), pre.synth.volume))
       => synth.cache = {}
  /\ (ret.op = "set_envelope" /\ ret.args # <<pre.synth.attack_ms, pre.synth.release_ms>>)
       => synth.cache = {}
  /\ ret.op \in {"note_on", "preview"} =>
       \A v \in {x \in voices : \A w \in pre.voices : w.id # x.id} :
         v.buf = Synthesise(synth, v.buf.freq)

\* C9 witness: a set_volume that found cached buffers, changed the volume and
\* left the cache empty
C9_Witness ==
  /\ ret.op = "set_volume"
  /\ pre.synth.cache # {}
  /\ ~IsClose(Clamp(ret.args, 0, VolOne), pre.synth.volume)
  /\ synth.volume = Clamp(ret.args, 0, VolOne)
  /\ synth.cache = {}

\* C10: the cache is left unchanged by set_transpose, by set_key_notes, and by
\* set_waveform, set_volume and set_envelope called with the value in effect;
\* a reconciliation whose settings have the waveform, volume and envelope in
\* effect keeps every cached buffer.
C10_CacheKept ==
  /\ ret.op \in {"set_transpose", "set_key_notes"} => synth.cache = pre.synth.cache
  /\ (ret.op = "set_waveform" /\ ret.args = pre.synth.waveform) => synth.cache = pre.synth.cache
  /\ (ret.op = "set_volume" /\ ret.args = pre.synth.volume) => synth.cache = pre.synth.cache
  /\ (ret.op = "set_envelope" /\ ret.args = <<pre.synth.attack_ms, pre.synth.release_ms>>)
       => synth.cache = pre.synth.cache
  /\ (/\ ret.op = "reconcile"
      /\ ret.args.settings.waveform = pre.synth.waveform
      /\ ret.args.settings.volume = pre.synth.volume
      /\ ret.args.settings.attack_ms = pre.synth.attack_ms
      /\ ret.args.settings.release_ms = pre.synth.release_ms)
       => synth.cache = pre.synth.cache

\* C10 witness: a reconciliation with the waveform, volume and envelope in
\* effect that changed the transpose and the key notes and kept a cached buffer
C10_Witness ==
  /\ ret.op = "reconcile"
  /\ ret.args.settings.waveform = pre.synth.waveform
  /\ ret.args.settings.volume = pre.synth.volume
  /\ ret.args.settings.attack_ms = pre.synth.attack_ms
  /\ ret.args.settings.release_ms = pre.synth.release_ms
  /\ synth.transpose # pre.synth.transpose
  /\ synth.key_notes # pre.synth.key_notes
  /\ pre.synth.cache # {}
  /\ synth.cache = pre.synth.cache

(***************************************************************************)
(* The controller on the event loop of main()                              *)
(*                                                                         *)
(* Every coroutine of the program runs on the one thread of the asyncio    *)
(* event loop: the scan loop (process_key), the tasks that encoder         *)
(* callbacks post from the GPIO thread with call_soon_threadsafe           *)
(* (process_encoder) and the web requests (the mutations).  A mutation     *)
(* takes SynthController._lock and runs to its return without an await, so *)
(* the loop thread runs nothing else meanwhile; the GPIO thread only       *)
(* appends to the loop's queue.  _apply_config is split at the read of     *)
(* config.synth, where it can raise.                                       *)
(***************************************************************************)
\* at most MaxLoopCalls handlers and mutations run, at most MaxQueue callbacks wait
MaxLoopCalls == 3
MaxQueue == 2

\* Encoder._edge on the GPIO thread: _cb posts process_encoder to the loop
GpioEdge(name, delta) ==
  /\ Len(queue) < MaxQueue
  /\ queue' = Append(queue, [name |-> name, delta |-> delta])
  /\ UNCHANGED <<pc, lock, job, epoch, callbacks, ctlVars, scanVars, ioVars>>

\* the loop runs the oldest posted process_encoder
LoopEncoder ==
  LET r == HandleEncoderEvent(ctl, synth, Head(queue).name, Head(queue).delta)
  IN /\ pc = "idle"
     /\ queue # <<>>
     /\ nops < MaxLoopCalls
     /\ nops' = nops + 1
     /\ queue' = Tail(queue)
     /\ pre' = Snapshot
     /\ ctl' = r.ctl
     /\ synth' = r.synth
     /\ ret' = [op |-> "handle_encoder_event", outcome |-> "ok", event |-> r.event]
     /\ UNCHANGED <<file, sa, voices, timers, pc, lock, job, epoch, callbacks, scanVars, ioVars>>

\* scan_loop: process_key for one event of scan_once
LoopKey(kind, key_id) ==
  LET r == HandleKeyEvent(ctl, synth, voices, sa, TRUE, kind, key_id)
  IN /\ pc = "idle"
     /\ nops < MaxLoopCalls
     /\ nops' = nops + 1
     /\ pre' = Snapshot
     /\ ctl' = r.ctl
     /\ synth' = r.synth
     /\ voices' = r.voices
     /\ ret' = KeyRet(r, kind, key_id)
     /\ UNCHANGED <<file, sa, timers, concVars, scanVars, ioVars>>

\* a mutation or reload starts: it takes the lock and runs the store; r is the
\* result of the whole operation.  A rejected one ends here; otherwise the
\* document is written and _apply_config starts on the model the store returned
Begin(op, args, r) ==
  /\ pc = "idle"
  /\ ~lock
  /\ nops < MaxLoopCalls
  /\ nops' = nops + 1
  /\ pre' = Snapshot
  /\ file' = r.file
  /\ IF r.outcome \in RejectedOutcomes
     THEN /\ ctl' = r.ctl
          /\ ret' = [op |-> op, args |-> args, outcome |-> r.outcome]
          /\ UNCHANGED <<pc, lock, job>>
     ELSE /\ lock' = TRUE
          /\ pc' = "tables"
          /\ job' = [op |-> op, args |-> args, cfg |-> r.ctl.config, id |-> nops + 1]
          /\ UNCHANGED <<ctl, ret>>
  /\ UNCHANGED <<synth, sa, voices, timers, queue, epoch, callbacks, scanVars, ioVars>>

\* _apply_config, lines 36-41: configuration, lookups, runtime state, key notes
ApplyTablesStep ==
  /\ pc = "tables"
  /\ ctl' = ApplyTables(ctl, job.cfg)
  /\ synth' = SetKeyNotes(synth, KeyNotesOf(job.cfg))
  /\ epoch' = [epoch EXCEPT !.tables = job.id]
  /\ pc' = "settings"
  /\ UNCHANGED <<file, sa, voices, timers, ret, nops, pre, lock, job, queue, callbacks, scanVars, ioVars>>

\* _apply_config, lines 42-53, and the return or the raise that releases the lock
ApplySettingsStep ==
  LET a == ApplySettings(ctl, synth, job.cfg)
  IN /\ pc = "settings"
     /\ ctl' = a.ctl
     /\ synth' = a.synth
     /\ epoch' = IF a.ok THEN [epoch EXCEPT !.settings = job.id] ELSE epoch
     /\ ret' = [op |-> job.op, args |-> job.args,
                outcome |-> IF a.ok THEN "ok" ELSE "AttributeError"]
     /\ lock' = FALSE
     /\ pc' = "idle"
     /\ job' = <<>>
     /\ UNCHANGED <<file, sa, voices, timers, nops, pre, queue, callbacks, scanVars, ioVars>>

LoopNext ==
  \/ \E name \in {"SW1", "SW2", "SW9"} : \E delta \in Deltas : GpioEdge(name, delta)
  \/ LoopEncoder
  \/ \E kind \in {"press", "release"} : \E key_id \in CtlKeyIds : LoopKey(kind, key_id)
  \/ \E payload \in ReplacePayloads : Begin("replace", payload, Replace(ctl, synth, file, payload))
  \/ \E p \in PartPayloads : Begin("update_part", p, UpdatePart(ctl, synth, file, p))
  \/ Begin("reload", <<>>, Reload(ctl, synth, file))
  \/ \E note \in NoteInputs :
       Begin("set_key_note", <<<<"MX1">>, note>>, SetKeyNote(ctl, synth, file, <<"MX1">>, note))
  \/ \E update_data \in SynthUpdates :
       Begin("update_synth_settings", update_data, UpdateSynthSettings(ctl, synth, file, update_data))
  \/ ApplyTablesStep
  \/ ApplySettingsStep

SpecLoop == CtlInit /\ [][LoopNext]_vars

\* C7: mutations and event handlers are mutually exclusive: no mutation starts
\* while another holds the lock, no handler runs between the start and the end
\* of a reconciliation, and the lookup tables, the runtime state and the live
\* settings a handler finds were all assigned by the same reconciliation.
C7_HandlersSeeOneConfiguration ==
  [][ /\ (pc = "idle" /\ pc' = "tables") => ~lock
      /\ (nops' # nops /\ ret'.op \in {"handle_key_event", "handle_encoder_event"}) =>
           /\ pc = "idle"
           /\ ~lock
           /\ epoch.tables = epoch.settings ]_vars

\* C11 as stated: an event on a transpose encoder sets the live transpose to
\* clamp(v + delta * step, -24, 24) and one on a volume encoder sets the live
\* volume to clamp(v + delta * step, 0, 1), step being the configured step (1
\* and 0.05 where none is configured); the value is the engine's and the event's.
\* With step = q + r / VolOne, r > 0, the sum v + delta * step is no integer:
\* it equals the integer live transpose only where the clamp cuts it.
C11_StepApplied ==
  (ret.op = "handle_encoder_event" /\ "action" \in DOMAIN ret.event) =>
    LET enc == EncCfg(pre.ctl, ret.event.name)
        delta == ret.event.delta
        v == pre.ctl.live_settings.transpose
        s == IF enc.step = NoneVal THEN VolOne ELSE enc.step[1]
        q == s \div VolOne
        r == s % VolOne
        t == ctl.live_settings.transpose
        w == Clamp(pre.ctl.live_settings.volume
                   + delta * (IF enc.step = NoneVal THEN 50000000 ELSE enc.step[1]), 0, VolOne)
    IN /\ enc.action = "transpose" =>
            /\ IF r = 0 THEN t = Clamp(v + delta * q, TransposeMin, TransposeMax)
               ELSE IF delta > 0
               THEN \/ v + q >= TransposeMax /\ t = TransposeMax
                    \/ v + q + 1 <= TransposeMin /\ t = TransposeMin
               ELSE \/ v - q <= TransposeMin /\ t = TransposeMin
                    \/ v - q - 1 >= TransposeMax /\ t = TransposeMax
            /\ synth.transpose = t
            /\ ret.event.value = Some(t)
       /\ enc.action = "volume" =>
            /\ ctl.live_settings.volume = w
            /\ IsClose(synth.volume, w)
            /\ ret.event.value = Some(w)

\* C11 witness: a step down on a transpose encoder whose step is 1.5 moved the
\* live transpose by one semitone
C11_Witness ==
  /\ ret.op = "handle_encoder_event"
  /\ "action" \in DOMAIN ret.event
  /\ ret.event.action = "transpose"
  /\ EncCfg(pre.ctl, ret.event.name).step = Some(1500000000)
  /\ ret.event.delta = -1
  /\ pre.ctl.live_settings.transpose = 5
  /\ ctl.live_settings.transpose = 4
  /\ synth.transpose = 4

\* the encoders of the loaded configuration whose action is `action`
EncodersWith(c, action) ==
  {n \in SeqRange(EncNameSeq(c.config)) : EncCfg(c, n).action = action}

\* handle_encoder_event(name, delta) called n times in a row
RECURSIVE RepeatEncoderEvent(_, _, _, _, _)
RepeatEncoderEvent(c, e, name, delta, n) ==
  IF n = 0 THEN [ctl |-> c, synth |-> e]
  ELSE LET r == HandleEncoderEvent(c, e, name, delta)
       IN RepeatEncoderEvent(r.ctl, r.synth, name, delta, n - 1)

\* C12: an event on a waveform encoder moves the live waveform (and the
\* engine's, and the event's value) to the entry at (index + delta) modulo the
\* length of the waveform list, whatever the configured step; and from every
\* reachable state len(list) events of the same delta on such an encoder give
\* back the live waveform and the engine's waveform.
C12_WaveformCycle ==
  /\ (ret.op = "handle_encoder_event" /\ "action" \in DOMAIN ret.event
        /\ ret.event.action = "waveform") =>
       LET old == pre.ctl.live_settings.waveform
           i == CHOOSE k \in 1..Len(SUPPORTED_WAVEFORMS) : SUPPORTED_WAVEFORMS[k] = old
           j == ((i - 1 + ret.event.delta) % Len(SUPPORTED_WAVEFORMS)) + 1
       IN /\ IsSupportedWaveform(old)
          /\ ctl.live_settings.waveform = SUPPORTED_WAVEFORMS[j]
          /\ synth.waveform = SUPPORTED_WAVEFORMS[j]
          /\ ret.event.value = Some(SUPPORTED_WAVEFORMS[j])
  /\ ret.op \in {"startup", "handle_encoder_event"} =>
       \A name \in EncodersWith(ctl, "waveform") : \A delta \in Deltas :
         LET r == RepeatEncoderEvent(ctl, synth, name, delta, Len(SUPPORTED_WAVEFORMS))
         IN /\ r.ctl.live_settings.waveform = ctl.live_settings.waveform
            /\ r.synth.waveform = synth.waveform

\* C12 witness: a step down from the first entry of the list wrapped to the
\* last one, on an encoder that has a configured step
C12_Witness ==
  /\ ret.op = "handle_encoder_event"
  /\ "action" \in DOMAIN ret.event
  /\ ret.event.action = "waveform"
  /\ EncCfg(pre.ctl, ret.event.name).step # NoneVal
  /\ ret.event.delta = -1
  /\ pre.ctl.live_settings.waveform = "sine"
  /\ ctl.live_settings.waveform = "triangle"
  /\ synth.waveform = "triangle"

\* C13: a press or release event for a configured key reports the frequency of
\* the key's configured note (the normalised note of the persisted
\* configuration, which is the one the event names) shifted by the live transpose: semitone index of
\* the note plus the transpose.
C13_KeyFrequency ==
  (ret.op = "handle_key_event" /\ ret.outcome = "ok"
     /\ HasKey(pre.ctl.key_lookup, ret.event.id)) =>
    LET k == pre.ctl.key_lookup[ret.event.id]
        note == NormaliseNote(pre.file.keys[k].note)
        base == NoteToFrequency(note, 0)
    IN /\ pre.file.keys[k].id = ret.event.id
       /\ ret.event.note = Some(note)
       /\ base # NoneVal
       /\ ret.event.freq = Some(base[1] + pre.ctl.live_settings.transpose)

\* C13 witness: after two +1 events on a transpose encoder of step 1 from
\* transpose 0, a press of a configured key resolved 2 semitones above its note
C13_Witness ==
  /\ ret.op = "handle_key_event"
  /\ ret.outcome = "ok"
  /\ ret.event.kind = "press"
  /\ HasKey(pre.ctl.key_lookup, ret.event.id)
  /\ pre.file = DocA
  /\ pre.ctl.live_settings.transpose = 2
  /\ ret.event.freq = Some(NoteToFrequency(KeyCfg(pre.ctl, ret.event.id).note, 0)[1] + 2)

(***************************************************************************)
(* main(): startup, the loops, teardown (app.py)                           *)
(***************************************************************************)
\* the template of default_config, as the store validates it: twelve keys on
\* note C4, five encoders
DefaultTemplate ==
  [keys |-> [i \in 1..12 |->
               [id |-> << <<"MX1">>, <<"MX2">>, <<"MX3">>, <<"MX4">>, <<"MX5">>, <<"MX6">>,
                          <<"MX7">>, <<"MX8">>, <<"MX9">>, <<"MX10">>, <<"MX11">>,
                          <<"MX12">> >>[i],
                note |-> <<"C", "4">>]],
   encoders |-> << [name |-> "SW1", action |-> "transpose", step |-> Some(VolOne)],
                   [name |-> "SW2", action |-> "volume", step |-> Some(50000000)],
                   [name |-> "SW3", action |-> "waveform", step |-> NoneVal],
                   [name |-> "SW4", action |-> "none", step |-> NoneVal],
                   [name |-> "SW5", action |-> "none", step |-> NoneVal] >>,
   synth |-> [waveform |-> "sine", volume |-> 700000000, transpose |-> 0,
              attack_ms |-> 5, release_ms |-> 180],
   app |-> [debounce_ms |-> 12],
   raw |-> {}]

\* mutant: a missing file replaced by another document than the template
EnsureConfig_Other(stored) == IF stored = NoneVal THEN DocB ELSE stored

\* _ensure_config: the document in the file once it returns; NoneVal is the
\* missing file, for which default_config saves the validated template
EnsureConfig(stored) ==
  IF stored = NoneVal THEN ModelDump(ModelValidate(DefaultTemplate)) ELSE stored

\* the process before main() runs: the file is missing, valid, or invalid
AppInit ==
  /\ ScanIdle
  /\ IoIdle
  /\ file \in {NoneVal, DocA, [DocA EXCEPT !.app.debounce_ms = 0]}
  /\ ctl = <<>> /\ synth = <<>> /\ sa = TRUE /\ voices = {} /\ timers = <<>>
  /\ ret = [op |-> "init", outcome |-> "ok"] /\ nops = 0 /\ pre = <<>>
  /\ pc = "boot" /\ lock = FALSE /\ job = <<>> /\ queue = <<>>
  /\ epoch = [tables |-> 0, settings |-> 0]
  /\ callbacks = {}

\* main, lines 31-61: the store, the controller built from the loaded document
\* and one Encoder per configured encoder; a validation error of load leaves main
Main ==
  LET f == EnsureConfig(file)
      m == ModelValidate(f)
      a == ApplyConfig(CtlEmpty(m), SynthInit, m)
  IN /\ pc = "boot"
     /\ pre' = [file |-> file, ctl |-> <<>>, synth |-> <<>>, voices |-> {}]
     /\ file' = f
     /\ IF ValidDoc(f)
        THEN /\ ctl' = a.ctl
             /\ synth' = a.synth
             /\ callbacks' = SeqRange(EncNameSeq(m))
             /\ pc' = "idle"
             /\ ret' = [op |-> "main", outcome |-> "ok"]
        ELSE /\ pc' = "exited"
             /\ ret' = [op |-> "main", outcome |-> "ValidationError"]
             /\ UNCHANGED <<ctl, synth, callbacks>>
     /\ UNCHANGED <<sa, voices, timers, nops, lock, job, queue, epoch, scanVars, ioVars>>

\* scan_loop: await process_key(kind, key_id) for one event of a scan pass; an
\* exception of handle_key_event leaves process_key, scan_loop and gather
ProcessKey(kind, key_id, play_ok) ==
  LET r == HandleKeyEvent(ctl, synth, voices, sa, play_ok, kind, key_id)
  IN /\ pc = "idle"
     /\ nops < MaxCalls
     /\ nops' = nops + 1
     /\ pre' = Snapshot
     /\ ctl' = r.ctl
     /\ synth' = r.synth
     /\ voices' = r.voices
     /\ ret' = KeyRet(r, kind, key_id)
     /\ pc' = IF r.raised THEN "finally" ELSE "idle"
     /\ UNCHANGED <<file, sa, timers, lock, job, queue, epoch, callbacks, scanVars, ioVars>>

\* web_loop raises (server.serve fails or is cancelled): gather is left
ServeFails ==
  /\ pc = "idle"
  /\ pc' = "finally"
  /\ pre' = Snapshot
  /\ ret' = [op |-> "web_loop", outcome |-> "raised"]
  /\ UNCHANGED <<file, ctl, synth, sa, voices, timers, nops, lock, job, queue, epoch,
                 callbacks, scanVars, ioVars>>

\* main, the finally block: enc.cancel() for every Encoder, pi.stop()
Teardown ==
  /\ pc = "finally"
  /\ callbacks' = {}
  /\ pc' = "exited"
  /\ pre' = Snapshot
  /\ ret' = [op |-> "teardown", outcome |-> "ok", cause |-> ret]
  /\ UNCHANGED <<file, ctl, synth, sa, voices, timers, nops, lock, job, queue, epoch, scanVars, ioVars>>

AppNext ==
  \/ Main
  \/ \E kind \in {"press", "release"} : \E key_id \in CtlKeyIds : \E play_ok \in BOOLEAN :
       ProcessKey(kind, key_id, play_ok)
  \/ \E name \in callbacks \cap {"SW1", "SW2"} : pc = "idle" /\ GpioEdge(name, 1)
  \/ LoopEncoder
  \/ \E note \in {<<"d", "4">>, <<"C", "9", "9", "9", "9", "9">>} :
       /\ pc = "idle"
       /\ Call("set_key_note", <<<<"MX1">>, note>>, SetKeyNote(ctl, synth, file, <<"MX1">>, note))
  \/ ServeFails
  \/ Teardown

SpecApp == AppInit /\ [][AppNext]_vars

\* C14: when no persisted document exists, main starts with the default
\* configuration instead of failing: the file then holds it, key MX1 maps to
\* C4, a press of MX1 at transpose 0 reports note C4 and the frequency of
\* semitone index 60, and the release after it reports the same id and note.
C14_DefaultOnMissingFile ==
  /\ (ret.op = "main" /\ pre.file = NoneVal) =>
       /\ ret.outcome = "ok"
       /\ pc = "idle"
       /\ ValidDoc(file)
       /\ HasKey(ctl.key_lookup, <<"MX1">>)
       /\ KeyCfg(ctl, <<"MX1">>).note = <<"C", "4">>
       /\ LET p == HandleKeyEvent(ctl, synth, voices, sa, TRUE, "press", <<"MX1">>)
              q == HandleKeyEvent(p.ctl, p.synth, p.voices, sa, TRUE, "release", <<"MX1">>)
          IN /\ ~p.raised /\ ~q.raised
             /\ p.event.note = Some(<<"C", "4">>)
             /\ p.event.freq = Some(60)
             /\ q.event.kind = "release"
             /\ q.event.id = <<"MX1">>
             /\ q.event.note = p.event.note
  /\ (ret.op = "handle_key_event" /\ ret.outcome = "ok" /\ ret.event.id = <<"MX1">>
        /\ pre.file = EnsureConfig(NoneVal)
        /\ pre.ctl.config = ModelValidate(pre.file)
        /\ pre.ctl.live_settings.transpose = 0) =>
       /\ ret.event.note = Some(<<"C", "4">>)
       /\ ret.event.freq = Some(60)

\* C14 witness: started without a file, MX1 was pressed and is now released
C14_Witness ==
  /\ ret.op = "handle_key_event"
  /\ ret.outcome = "ok"
  /\ pre.file = EnsureConfig(NoneVal)
  /\ pre.ctl.config = ModelValidate(pre.file)
  /\ ret.event.kind = "release"
  /\ ret.event.id = <<"MX1">>
  /\ ret.event.note = Some(<<"C", "4">>)
  /\ ret.event.freq = Some(60)
  /\ pre.ctl.key_state[<<"MX1">>]
  /\ Cardinality(pre.voices) = 1
  /\ voices = {}

\* C15: handle_key_event with a key id absent from the key lookup and
\* handle_encoder_event with a name absent from the encoder lookup do not
\* raise, return an event whose data fields are null (note and freq; action,
\* absent or null, and value) and change nothing: live settings, per-key
\* pressed flags, per-encoder history, voices, engine and configuration are as
\* before the call.
C15_UnknownIsNoOp ==
  /\ (ret.op = "handle_key_event" /\ ret.outcome = "ok"
        /\ ~HasKey(pre.ctl.key_lookup, ret.event.id)) =>
       /\ ret.event.note = NoneVal
       /\ ret.event.freq = NoneVal
       /\ ctl = pre.ctl /\ synth = pre.synth /\ voices = pre.voices /\ file = pre.file
  /\ (ret.op = "handle_key_event" /\ ret.outcome # "ok") =>
       HasKey(pre.ctl.key_lookup, ret.args[2])
  /\ (ret.op = "handle_encoder_event"
        /\ ~HasKey(pre.ctl.encoder_lookup, ret.event.name)) =>
       /\ ret.outcome = "ok"
       /\ "action" \in DOMAIN ret.event => ret.event.action = NoneVal
       /\ ret.event.value = NoneVal
       /\ ctl = pre.ctl /\ synth = pre.synth /\ voices = pre.voices /\ file = pre.file

\* C15 witness: a press of a key id that is not configured returned the
\* degraded event
C15_Witness ==
  /\ ret.op = "handle_key_event"
  /\ ret.outcome = "ok"
  /\ ret.event.kind = "press"
  /\ ~HasKey(pre.ctl.key_lookup, ret.event.id)
  /\ ret.event.note = NoneVal
  /\ ret.event.freq = NoneVal
  /\ ~HasKey(pre.ctl.key_state, ret.event.id)

\* C16: after stop_all returns, no voice the engine started is still sounding
\* and the engine tracks no active voice, whatever note_on, note_off, preview
\* calls and preview cleanups came before.
C16_StopAllSilences ==
  ret.op = "stop_all" => (voices = {} /\ synth.playing = <<>>)

\* C16 witness: stop_all returned while a voice was tracked and sounding
C16_Witness ==
  /\ ret.op = "stop_all"
  /\ pre.voices # {}
  /\ pre.synth.playing # <<>>
  /\ synth.playing = <<>>

\* C17: when main has torn down (the scan loop or the web loop ended or
\* failed), every callback registered by an Encoder is deregistered, no posted
\* encoder step is run any more, and every voice that was active is stopped.
C17_TeardownReleasesAll ==
  pc = "exited" =>
    /\ callbacks = {}
    /\ ret.op # "handle_encoder_event"
    /\ voices = {}

\* C17 witness: the finally block ran while a voice was active
C17_Witness ==
  /\ pc = "exited"
  /\ ret.op = "teardown"
  /\ pre.voices # {}
  /\ callbacks = {}

\* what note_on reports for the note it resolves for key_id in the current state
NoteOnInfo(key_id, default_note) ==
  NoteOn(synth, voices, sa, TRUE, key_id, default_note).info

C19_FailureIsolated ==
  (ret.op \in {"handle_key_event", "handle_encoder_event"} /\ ret.outcome # "ok") => pc = "idle"

\* C19 witness: handle_key_event raised while the loops were running
C19_Witness ==
  /\ ret.op = "handle_key_event"
  /\ ret.outcome = "OverflowError"
  /\ pre.ctl.key_state[ret.args[2]]
  /\ callbacks # {}

\* ConfigStore.load: the validated document of the file, or the error it raises
StoreLoad(f) == IF ValidDoc(f) THEN ModelValidate(f) ELSE <<"ValidationError">>

\* C20: after a configuration was saved through the store, loading the file
\* returns a configuration equal in every field to the one save returned (the
\* one the controller was given), for every valid document; notes given as
\* flats or in lower case are stored in normalised form.
C20_SaveLoadRoundTrip ==
  /\ \A d \in ReplacePayloads :
       ValidDoc(d) =>
         /\ StoreLoad(ModelDump(ModelValidate(d))) = ModelValidate(d)
         /\ \A i \in 1..Len(d.keys) :
              ModelDump(ModelValidate(d)).keys[i].note = NormaliseNote(d.keys[i].note)
  /\ (ret.op \in MutationOps /\ ret.outcome \notin RejectedOutcomes /\ ValidDoc(file)) =>
       StoreLoad(file) = ctl.config

\* C20 witness: a note given in lower case was saved in normalised form and
\* the file loads as the configuration save returned
C20_Witness ==
  /\ ret.op = "set_key_note"
  /\ ret.outcome = "ok"
  /\ ret.args[2] = <<"d", "4">>
  /\ file.keys[1].note = <<"D", "4">>
  /\ StoreLoad(file) = ctl.config

\* C21: in every configuration the controller holds, key ids are pairwise
\* distinct and encoder names are pairwise distinct, so each lookup table has
\* exactly one entry per definition of the configuration.
C21_IdentifiersUnique ==
  /\ \A i, j \in 1..Len(ctl.config.keys) :
       ctl.config.keys[i].id = ctl.config.keys[j].id => i = j
  /\ \A i, j \in 1..Len(ctl.config.encoders) :
       ctl.config.encoders[i].name = ctl.config.encoders[j].name => i = j
  /\ Cardinality(DOMAIN ctl.key_lookup) = Len(ctl.config.keys)
  /\ Cardinality(DOMAIN ctl.encoder_lookup) = Len(ctl.config.encoders)

\* C21 witness: a replace with a document that names key MX1 twice was accepted
C21_Witness ==
  /\ ret.op = "replace"
  /\ ret.outcome = "ok"
  /\ Len(ret.args.keys) = 3
  /\ ret.args.keys[1].id = ret.args.keys[3].id
  /\ Len(file.keys) = 3

(***************************************************************************)
(* The outward messages: notify_clients and the websocket endpoint of       *)
(* web/server.py.  A delivery is a coroutine; it yields at every send, so   *)
(* other deliveries and the connects and disconnects of the endpoint run    *)
(* between two of its sends.                                                *)
(***************************************************************************)
\* WebSocket objects are numbered in the order they connect
MaxClients == 2

\* the notify_clients calls that can be in progress at the same time
Deliveries == {1, 2}

\* the orders in which list(clients) can enumerate the set
Orders(S) == {q \in [1..Cardinality(S) -> S] : \A c \in S : \E i \in DOMAIN q : q[i] = c}

\* a notify_clients call that has not started
NoDelivery ==
  [pc |-> "idle", snap |-> {}, order |-> <<>>, todo |-> <<>>, dead |-> <<>>,
   attempts |-> <<>>]

\* a send that raises ends the whole delivery
SendText_Abort(dl, client, ok) ==
  [dl EXCEPT !.todo = IF ok THEN Tail(@) ELSE <<>>,
             !.attempts[client] = @ + 1,
             !.pc = IF ok THEN @ ELSE "raised"]

\* lines 35-38: one pass of the loop body for client; ok is whether send_text
\* returned; an exception of it is caught and the client is put on the dead list
SendText(dl, client, ok) ==
  [dl EXCEPT !.todo = Tail(@),
             !.attempts[client] = @ + 1,
             !.dead = IF ok THEN @ ELSE Append(@, client)]

NotifyInit ==
  /\ ScanIdle
  /\ CtlIdle
  /\ LoopIdle
  /\ callbacks = {}
  /\ level_A = 0 /\ level_B = 0 /\ enc_log = <<>>
  /\ clients = {}
  /\ next_ws = 1
  /\ deliveries = [d \in Deliveries |-> NoDelivery]

\* ws_endpoint, line 138: an accepted WebSocket joins the set
WsConnect ==
  /\ next_ws <= MaxClients
  /\ clients' = clients \cup {next_ws}
  /\ next_ws' = next_ws + 1
  /\ UNCHANGED <<deliveries, level_A, level_B, enc_log, scanVars, ctlVars, concVars>>

\* ws_endpoint, lines 149-150: the endpoint of ws ends and discards it
WsDisconnect(ws) ==
  /\ ws \in clients
  /\ clients' = clients \ {ws}
  /\ UNCHANGED <<next_ws, deliveries, level_A, level_B, enc_log, scanVars, ctlVars, concVars>>

\* notify_clients, lines 32-34: the dead list and the copy of the set
NotifyBegin(d) ==
  /\ deliveries[d].pc = "idle"
  /\ \E q \in Orders(clients) :
       deliveries' = [deliveries EXCEPT ![d] =
                        [pc |-> "sending", snap |-> clients, order |-> q, todo |-> q,
                         dead |-> <<>>, attempts |-> [c \in clients |-> 0]]]
  /\ UNCHANGED <<clients, next_ws, level_A, level_B, enc_log, scanVars, ctlVars, concVars>>

\* notify_clients, lines 34-38: the send to the next client of the copy
NotifySend(d) ==
  /\ deliveries[d].pc = "sending"
  /\ deliveries[d].todo # <<>>
  /\ \E ok \in BOOLEAN :
       deliveries' = [deliveries EXCEPT ![d] = SendText(@, Head(@.todo), ok)]
  /\ UNCHANGED <<clients, next_ws, level_A, level_B, enc_log, scanVars, ctlVars, concVars>>

\* notify_clients, lines 39-40: the dead clients leave the set and the call returns
NotifyEnd(d) ==
  /\ deliveries[d].pc = "sending"
  /\ deliveries[d].todo = <<>>
  /\ clients' = clients \ SeqRange(deliveries[d].dead)
  /\ deliveries' = [deliveries EXCEPT ![d].pc = "idle"]
  /\ UNCHANGED <<next_ws, level_A, level_B, enc_log, scanVars, ctlVars, concVars>>

NotifyNext ==
  \/ WsConnect
  \/ \E ws \in 1..MaxClients : WsDisconnect(ws)
  \/ \E d \in Deliveries : NotifyBegin(d)
  \/ \E d \in Deliveries : NotifySend(d)
  \/ \E d \in Deliveries : NotifyEnd(d)

SpecNotify == NotifyInit /\ [][NotifyNext]_vars

\* C22: in every delivery each subscriber of the copy made at its start is sent
\* to exactly once, whether or not an earlier send failed (not yet while it is
\* still to come, once afterwards); the delivery never ends by raising; and when
\* it has returned, the subscribers whose send failed are not in the set
C22_SendFailureIsolated ==
  \A d \in Deliveries :
    LET dl == deliveries[d] IN
      /\ dl.pc # "raised"
      /\ \A c \in dl.snap :
           dl.attempts[c] = IF c \in SeqRange(dl.todo) THEN 0 ELSE 1
      /\ dl.pc = "idle" => /\ dl.todo = <<>>
                           /\ SeqRange(dl.dead) \cap clients = {}

\* a returned delivery whose first send failed and whose second send succeeded
C22_Witness ==
  \E d \in Deliveries :
    LET dl == deliveries[d] IN
      /\ dl.pc = "idle" /\ Len(dl.order) >= 2
      /\ dl.order[1] \in SeqRange(dl.dead)
      /\ dl.order[2] \notin SeqRange(dl.dead)
      /\ dl.attempts[dl.order[2]] = 1
      /\ dl.order[2] \in clients

(***************************************************************************)
(* Encoder (encoder.py): the edge callback of one encoder.  pigpio calls    *)
(* _edge for the two pins the callbacks are registered on, with the new     *)
(* level of the pin.                                                        *)
(***************************************************************************)
\* edges delivered to the encoder
MaxEdges == 4

\* the pins the callbacks are registered for and the levels of an edge
EncoderPins == {"A", "B"}
Levels == {0, 1}

\* the step is decided on the levels as they were before the edge
Edge_Stale(a, b, gpio, level) ==
  [level_A |-> IF gpio = "A" THEN level ELSE a,
   level_B |-> IF gpio = "A" THEN b ELSE level,
   emit |-> IF a = 0 /\ b = 1 THEN <<1>>
            ELSE IF a = 1 /\ b = 0 THEN <<-1>> ELSE <<>>]

\* _edge, lines 19-28, with self.level_A = a and self.level_B = b: the levels
\* afterwards and the deltas the callback is called with
Edge(a, b, gpio, level) ==
  LET na == IF gpio = "A" THEN level ELSE a
      nb == IF gpio = "A" THEN b ELSE level
  IN  [level_A |-> na, level_B |-> nb,
       emit |-> IF na = 0 /\ nb = 1 THEN <<1>>
                ELSE IF na = 1 /\ nb = 0 THEN <<-1>> ELSE <<>>]

\* Encoder.__init__, lines 9-10
EdgeInit ==
  /\ ScanIdle
  /\ CtlIdle
  /\ LoopIdle
  /\ callbacks = {}
  /\ clients = {} /\ next_ws = 1 /\ deliveries = <<>>
  /\ level_A = 0
  /\ level_B = 0
  /\ enc_log = <<>>

\* one call of _edge by pigpio
EdgeStep(gpio, level) ==
  LET r == Edge(level_A, level_B, gpio, level) IN
    /\ Len(enc_log) < MaxEdges
    /\ level_A' = r.level_A
    /\ level_B' = r.level_B
    /\ enc_log' = Append(enc_log, [gpio |-> gpio, level |-> level, level_A |-> r.level_A,
                                   level_B |-> r.level_B, emit |-> r.emit])
    /\ UNCHANGED <<clients, next_ws, deliveries, scanVars, ctlVars, concVars>>

EdgeNext == \E gpio \in EncoderPins : \E level \in Levels : EdgeStep(gpio, level)

SpecEdge == EdgeInit /\ [][EdgeNext]_vars

\* C23: every edge first records its level for its pin and leaves the other
\* pin's level, and then emits +1 when the recorded levels are A low and B high,
\* -1 when they are A high and B low, and nothing when they are equal
C23_EdgeDecode ==
  /\ \A i \in 1..Len(enc_log) :
       LET e == enc_log[i]
           a == IF i = 1 THEN 0 ELSE enc_log[i - 1].level_A
           b == IF i = 1 THEN 0 ELSE enc_log[i - 1].level_B
       IN  /\ e.gpio = "A" => e.level_A = e.level /\ e.level_B = b
           /\ e.gpio = "B" => e.level_B = e.level /\ e.level_A = a
           /\ (e.level_A = 0 /\ e.level_B = 1) => e.emit = <<1>>
           /\ (e.level_A = 1 /\ e.level_B = 0) => e.emit = <<-1>>
           /\ e.level_A = e.level_B => e.emit = <<>>
  /\ enc_log # <<>> => /\ level_A = enc_log[Len(enc_log)].level_A
                       /\ level_B = enc_log[Len(enc_log)].level_B

\* a turn in which the encoder emitted +1, then nothing, then -1, then nothing
C23_Witness ==
  /\ Len(enc_log) = 4
  /\ enc_log[1].emit = <<1>> /\ enc_log[2].emit = <<>>
  /\ enc_log[3].emit = <<-1>> /\ enc_log[4].emit = <<>>
  /\ level_A = 0 /\ level_B = 0

(***************************************************************************)
(* An encoder without a mapped action                                       *)
(***************************************************************************)
\* C24: handle_encoder_event for an encoder whose action is none leaves the live
\* settings and the whole audio engine as they were, records action none, no
\* value and the delta for that encoder, and leaves the recorded history of
\* every other encoder and all pressed flags unchanged
C24_NoneIsFrame ==
  (/\ ret.op = "handle_encoder_event"
   /\ "action" \in DOMAIN ret.event
   /\ EncCfg(pre.ctl, ret.event.name).action = "none") =>
    LET name == ret.event.name IN
      /\ ctl.live_settings = pre.ctl.live_settings
      /\ synth = pre.synth
      /\ voices = pre.voices
      /\ name \in DOMAIN ctl.encoder_state
      /\ ctl.encoder_state[name] =
           [action |-> "none", value |-> NoneVal, delta |-> ret.event.delta]
      /\ ret.event.value = NoneVal
      /\ DOMAIN ctl.encoder_state = DOMAIN pre.ctl.encoder_state \cup {name}
      /\ \A n \in DOMAIN pre.ctl.encoder_state \ {name} :
           ctl.encoder_state[n] = pre.ctl.encoder_state[n]
      /\ ctl.key_state = pre.ctl.key_state

\* an event of an encoder with action none while a key is pressed, another
\* encoder has a recorded history and that encoder has changed a live setting
C24_Witness ==
  /\ ret.op = "handle_encoder_event"
  /\ "action" \in DOMAIN ret.event
  /\ EncCfg(pre.ctl, ret.event.name).action = "none"
  /\ \E k \in DOMAIN pre.ctl.key_state : pre.ctl.key_state[k]
  /\ \E n \in DOMAIN pre.ctl.encoder_state \ {ret.event.name} :
       /\ pre.ctl.encoder_state[n].value # NoneVal
       /\ pre.ctl.encoder_state[n].delta # ret.event.delta

(***************************************************************************)
(* The cleanup of a preview and the keys                                    *)
(***************************************************************************)
\* C25 as stated: the cleanup of a preview changes no sounding voice and removes
\* no voice entry of a configured key.  The engine's keys are MX1, MX2 and a key
\* whose id is preview-C4.  When the last pending cleanup has fired, a voice that
\* still sounds under its key id was started by key handling: every preview
\* started a timer and a preview's voice is as old as its timer, so it has
\* played out when the timer fires.
C25_CleanupLeavesKeys ==
  ret.op = "cleanup" =>
    /\ voices = pre.voices
    /\ \A k \in DOMAIN pre.synth.playing :
         (\/ k \in {<<"MX1">>, <<"MX2">>}
          \/ timers = <<>> /\ \E v \in pre.voices : v.id = pre.synth.playing[k]) =>
           /\ k \in DOMAIN synth.playing
           /\ synth.playing[k] = pre.synth.playing[k]

\* the cleanup of the preview of C4 fires while MX1 sounds and the key named
\* preview-C4, pressed after the preview, sounds too
C25_Witness ==
  /\ ret.op = "cleanup" /\ ret.args = PreviewKey(<<"C", "4">>)
  /\ timers = <<>>
  /\ <<"MX1">> \in DOMAIN pre.synth.playing
  /\ ret.args \in DOMAIN pre.synth.playing
  /\ \E v \in pre.voices : v.id = pre.synth.playing[ret.args]

(***************************************************************************)
(* Encoder events and the persisted configuration                           *)
(***************************************************************************)
\* C26 as stated: after an encoder event that changed the live transpose,
\* volume or waveform, the synth section of the persisted configuration holds
\* the controller's live transpose, volume and waveform
C26_EncoderPersisted ==
  (/\ ret.op = "handle_encoder_event"
   /\ ctl.live_settings # pre.ctl.live_settings) =>
    /\ file.synth.transpose = ctl.live_settings.transpose
    /\ file.synth.volume = ctl.live_settings.volume
    /\ file.synth.waveform = ctl.live_settings.waveform

\* an encoder event changed the live transpose and the engine's, and the
\* persisted document is the one from before the event with the old transpose
C26_Witness ==
  /\ ret.op = "handle_encoder_event"
  /\ ctl.live_settings.transpose # pre.ctl.live_settings.transpose
  /\ synth.transpose = ctl.live_settings.transpose
  /\ file = pre.file
  /\ file.synth.transpose = pre.ctl.live_settings.transpose

(***************************************************************************)
(* The transitions of one key over the passes of the scanner                *)
(***************************************************************************)
\* the key map has distinct ids and distinct (row pin, column pin) positions
DistinctKeyMap(km) ==
  \A i, j \in 1..Len(km) :
    i # j => /\ km[i].id # km[j].id
             /\ <<RowPin(km[i].row), ColPin(km[i].col)>> # <<RowPin(km[j].row), ColPin(km[j].col)>>

\* C27: for a key map with distinct ids and positions every key starts released;
\* a pass emits at most one transition for a key; the transition is a press if
\* the stored state was released and a release if it was pressed, and the stored
\* state becomes its kind; without a transition the stored state is kept.  So
\* the transitions of a key alternate, beginning with a press, and the stored
\* state is the kind of the last one.
C27_Alternation ==
  /\ \A k \in KeyIds(key_map) : ~scan_state[k]
  /\ [][DistinctKeyMap(key_map) =>
          \A k \in KeyIds(key_map) :
            LET emitted == EventsOf(scan_events', k) IN
              /\ Cardinality(emitted) <= 1
              /\ \A i \in emitted :
                   /\ scan_events'[i][1] = (IF scan_state[k] THEN "release" ELSE "press")
                   /\ scan_state'[k] = (scan_events'[i][1] = "press")
              /\ emitted = {} => scan_state'[k] = scan_state[k]
      ]_vars

\* a pass that returned the release of one key, pressed before, and the press
\* of another, with the stored states following the two transitions
C27_Witness ==
  /\ DistinctKeyMap(key_map)
  /\ \E i, j \in 1..Len(scan_events) :
       /\ scan_events[i] = <<"release", <<"MX1">>>>
       /\ scan_events[j] = <<"press", <<"MX2">>>>
  /\ ~scan_state[<<"MX1">>]
  /\ scan_state[<<"MX2">>]

(***************************************************************************)
(* The buffer cache and the settings in effect                              *)
(***************************************************************************)
\* C28: in every reachable state of the engine the key of every cache entry
\* carries the current waveform, volume, attack_ms and release_ms, its buffer is
\* the one synthesised under the current settings for its frequency, and the
\* voice a note_on or a preview has just started plays such a buffer
C28_CacheIsCurrent ==
  /\ \A c \in synth.cache :
       /\ c.key[1] = synth.waveform
       /\ c.key[3] = synth.volume
       /\ c.key[4] = synth.attack_ms
       /\ c.key[5] = synth.release_ms
       /\ c.buf = Synthesise(synth, c.key[2])
  /\ ret.op \in {"note_on", "preview"} =>
       \A v \in voices :
         (\A w \in pre.voices : w.id # v.id) =>
           /\ v.buf.shape = SampleShape(synth.waveform)
           /\ v.buf.volume = synth.volume
           /\ v.buf.attack_ms = synth.attack_ms
           /\ v.buf.release_ms = synth.release_ms

\* set_volume with a volume within the tolerance of the current one, which is
\* not the initial one: the volume and the cached buffers are kept
C28_Witness ==
  /\ ret.op = "set_volume"
  /\ ret.args # synth.volume
  /\ ret.args <= VolOne
  /\ synth.volume # SynthInit.volume
  /\ synth.cache # {}
  /\ \A c \in synth.cache : c.key[3] = synth.volume

=============================================================================
